---- MODULE Spec2Model ----
(***************************************************************************)
(* EvoSoup: the rule-based VM (src/vm/vm.go, first file, lines 1-266) and  *)
(* the channel-based population supervisor (src/state.go, second file,     *)
(* lines 328-765) with its control surface (src/unnamed/part_000).         *)
(*                                                                         *)
(* The soup is a function 0..len-1 -> int8, an IP is a record with the     *)
(* fields of vm.IP (the Soup reference is the supervisor's soup).          *)
(* Goroutines are processes with a program counter; every action is one    *)
(* statement (or one call of IP.Step, which the model takes as one step).  *)
(***************************************************************************)
EXTENDS Integers, Sequences, FiniteSets, TLC

(***************************************************************************)
(* Bounds of the model.                                                    *)
(***************************************************************************)
DIM_X == 3            \* SoupDimX of the model (the soup is DIM_X x DIM_Y)
DIM_Y == 2            \* SoupDimY of the model
NumIPs == 2           \* IPs created by initializeSimulation in the model
MaxSteps == 1         \* an IP is stepped only while its Steps < MaxSteps
MaxCmds == 3          \* control commands a connection delivers in a run
MaxSets == 1          \* of which set_... messages
MaxFlips == 1         \* cosmic-ray flips in a run

N == DIM_X * DIM_Y

(***************************************************************************)
(* Fixed-width integers as Go computes them.                               *)
(***************************************************************************)
Int8 == -128..127

\* int32 values are plain integers: every cursor and offset of the model stays
\* far inside the 32-bit range (TLC itself stops on a 32-bit overflow)

\* byte(v): the low 8 bits, unsigned
U8(v) == v % 256

\* int8(b) of an unsigned byte
S8(b) == IF b >= 128 THEN b - 256 ELSE b

\* int16(v) of the low 16 bits
S16(v) == LET u == v % 65536 IN IF u >= 32768 THEN u - 65536 ELSE u

\* Go's % on signed integers truncates toward zero (sign of the dividend)
GoRem(a, b) == IF a >= 0 THEN a % b ELSE -((-a) % b)

\* Go's / on signed integers truncates toward zero
GoDiv(a, b) == IF a >= 0 THEN a \div b ELSE -((-a) \div b)

\* bit k of an unsigned byte
Bit(u, k) == (u \div (2 ^ k)) % 2

\* the bitwise and, and the bitwise exclusive or, of two unsigned bytes
BitAnd(a, b) ==
    Bit(a, 0) * Bit(b, 0) + 2 * Bit(a, 1) * Bit(b, 1)
    + 4 * Bit(a, 2) * Bit(b, 2) + 8 * Bit(a, 3) * Bit(b, 3)
    + 16 * Bit(a, 4) * Bit(b, 4) + 32 * Bit(a, 5) * Bit(b, 5)
    + 64 * Bit(a, 6) * Bit(b, 6) + 128 * Bit(a, 7) * Bit(b, 7)

BitXor(a, b) == a + b - 2 * BitAnd(a, b)

\* int8 operators &, ^ (binary) and ^ (unary) of vm.go:233-235
And8(a, b) == S8(BitAnd(U8(a), U8(b)))
Xor8(a, b) == S8(BitXor(U8(a), U8(b)))
Not8(a) == -a - 1

(***************************************************************************)
(* vm.go: opcodes and types.                                               *)
(***************************************************************************)
ALU_NAND == 0
ALU_XOR == 1
ALU_MOV == 2
ALU_JMP == 3
TYPE_IMMEDIATE_VERTICAL == 0
TYPE_ADDR_FROM_IMMEDIATE == 1
TYPE_IMMEDIATE_LEFT == 2
TYPE_IMMEDIATE_RIGHT == 3
JUMP_Z == 0
JUMP_NZ == 1
JUMP_GZ == 2
JUMP_LZ == 3

\* vm.go:92-104 NewIP: Steps starts at 0, SoupDimY is len(soup)/soupDimX
NewIP(id, soupArg, x, y, soupDimX, use32BitAddressing, useRelativeAddressing) ==
    [ID |-> id, X |-> x, Y |-> y, Steps |-> 0,
     Use32BitAddressing |-> use32BitAddressing,
     UseRelativeAddressing |-> useRelativeAddressing,
     SoupDimX |-> soupDimX,
     SoupDimY |-> GoDiv(Cardinality(DOMAIN soupArg), soupDimX)]

\* vm.go:71-73 IP.wrap, with the plausible slip "val % max" as its mutant
wrap_Truncated(val, max) == GoRem(val, max)

\* a second mutant of wrap: a negative remainder is mirrored, not shifted
wrap_Mirror(val, max) ==
    IF GoRem(val, max) < 0 THEN 0 - GoRem(val, max) ELSE GoRem(val, max)

wrap(val, max) == GoRem((GoRem(val, max) + max), max)

\* vm.go:75-77 IP.to1D, with "the coordinates are not wrapped" as its mutant
to1D_NoWrap(ip, x, y) == y * ip.SoupDimX + x

to1D(ip, x, y) == (wrap(y, ip.SoupDimY) * ip.SoupDimX + wrap(x, ip.SoupDimX))

\* ip.Soup[i]: the value read; an index outside the slice panics in Go, which
\* IPStep reports through the set of accessed indices
SoupAt(s, i) == IF i \in DOMAIN s THEN s[i] ELSE 0

\* vm.go:112-119 advanceFetch on the fetch cursor f = <<fetchX, fetchY>>
advanceFetch(ip, f) ==
    LET x1 == (f[1] + 1)
        over == x1 >= ip.SoupDimX
    IN  <<IF over THEN 0 ELSE x1,
          wrap(IF over THEN (f[2] + 1) ELSE f[2], ip.SoupDimY)>>

\* F at the value of v, v being computed once: the local variable of the Go
\* code that holds v
Bind(v, F(_)) == CHOOSE r \in {F(x) : x \in {v}} : TRUE

\* vm.go:126-130 fetch8: value, cell read, advanced cursor
fetch8(ip, s, f) ==
    Bind(to1D(ip, f[1], f[2]), LAMBDA i :
        [val |-> SoupAt(s, i), acc |-> {i}, f |-> advanceFetch(ip, f)])

\* vm.go:131-134 fetch32: four fetch8, combined big-endian into an int32
fetch32(ip, s, f) ==
    Bind(fetch8(ip, s, f), LAMBDA b1 :
    Bind(fetch8(ip, s, b1.f), LAMBDA b2 :
    Bind(fetch8(ip, s, b2.f), LAMBDA b3 :
    Bind(fetch8(ip, s, b3.f), LAMBDA b4 :
        [val |-> b1.val * 16777216 + U8(b2.val) * 65536 + U8(b3.val) * 256
                 + U8(b4.val),
         acc |-> b1.acc \cup b2.acc \cup b3.acc \cup b4.acc,
         f |-> b4.f]))))

\* vm.go:135-140 fetchImmediate
fetchImmediate(ip, s, f) ==
    IF ip.Use32BitAddressing THEN fetch32(ip, s, f) ELSE fetch8(ip, s, f)

\* vm.go:141-165 resolveAddress
resolveXY(ip, baseX, baseY, offset) ==
    LET b == U8(offset)
    IN  IF ip.UseRelativeAddressing
        THEN IF ip.Use32BitAddressing
             THEN <<(baseX + S16(offset)),
                    (baseY + S16(offset \div 65536))>>
             ELSE <<(baseX + (S8((b * 16) % 256) \div 16)),
                    (baseY + (S8(b) \div 16))>>
        ELSE IF ip.Use32BitAddressing
             THEN <<offset % 65536, (offset \div 65536) % 65536>>
             ELSE <<offset % 256, (offset \div 256) % 256>>

\* vm.go:164 return ip.to1D(finalX, finalY)
resolveAddress(ip, baseX, baseY, offset) ==
    Bind(resolveXY(ip, baseX, baseY, offset),
         LAMBDA xy : to1D(ip, xy[1], xy[2]))

\* vm.go:204-207 a taken jump sets the cursor from the 1D jump index, with
\* "the row is taken modulo the width too" as its mutant
jumpTo_RowByRem(jumpIndex, soupDimX) ==
    <<GoRem(jumpIndex, soupDimX), GoRem(jumpIndex, soupDimX)>>

jumpTo(jumpIndex, soupDimX) ==
    <<GoRem(jumpIndex, soupDimX), GoDiv(jumpIndex, soupDimX)>>

\* vm.go:174 if aluOp == ALU_JMP, with "the test is missing and a jump byte
\* falls into the ALU branch" as its mutant
isJump_Never(aluOp) == FALSE

isJump(aluOp) == aluOp = ALU_JMP

\* the jump record of a Step that ran the ALU branch
NoJump == [none |-> TRUE]

\* vm.go:174-207 the jump branch of IP.Step: the offset operand, the condition
\* operand and the decision
StepJump(ip, s, f1, srcType, destType) ==
    LET locX == ip.X
        locY == ip.Y
        left == to1D(ip, (locX - 1), locY)
        right == to1D(ip, (locX + 1), locY)
    IN
    \* first switch: offset
    Bind(fetchImmediate(ip, s, f1), LAMBDA imm1 :
    Bind(resolveAddress(ip, locX, locY, imm1.val), LAMBDA addr1 :
    Bind(CASE srcType = TYPE_IMMEDIATE_VERTICAL -> imm1.val
           [] srcType = TYPE_ADDR_FROM_IMMEDIATE -> SoupAt(s, addr1)
           [] srcType = TYPE_IMMEDIATE_LEFT -> SoupAt(s, left)
           [] OTHER -> SoupAt(s, right), LAMBDA offset :
    Bind(IF srcType \in {TYPE_IMMEDIATE_VERTICAL, TYPE_ADDR_FROM_IMMEDIATE}
         THEN imm1.f ELSE f1, LAMBDA f2 :
    Bind(resolveAddress(ip, locX, locY, offset), LAMBDA jumpIndex :
    \* second switch: condVal
    Bind(fetch8(ip, s, f2), LAMBDA c8 :
    Bind(fetchImmediate(ip, s, f2), LAMBDA imm2 :
    Bind(resolveAddress(ip, locX, locY, imm2.val), LAMBDA addr2 :
    Bind(CASE srcType = TYPE_IMMEDIATE_VERTICAL -> c8.val
           [] srcType = TYPE_ADDR_FROM_IMMEDIATE -> SoupAt(s, addr2)
           [] srcType = TYPE_IMMEDIATE_LEFT -> SoupAt(s, left)
           [] OTHER -> SoupAt(s, right), LAMBDA condVal :
    Bind(CASE destType = JUMP_Z -> condVal = 0
           [] destType = JUMP_NZ -> condVal # 0
           [] destType = JUMP_GZ -> condVal > 0
           [] OTHER -> condVal < 0, LAMBDA jumpTaken :
        [X |-> IF jumpTaken THEN jumpTo(jumpIndex, ip.SoupDimX)[1] ELSE ip.X,
         Y |-> IF jumpTaken THEN jumpTo(jumpIndex, ip.SoupDimX)[2] ELSE ip.Y,
         soup |-> s,
         acc |-> (CASE srcType = TYPE_IMMEDIATE_VERTICAL -> imm1.acc
                    [] srcType = TYPE_ADDR_FROM_IMMEDIATE -> imm1.acc \cup {addr1}
                    [] srcType = TYPE_IMMEDIATE_LEFT -> {left}
                    [] OTHER -> {right})
                 \cup
                 (CASE srcType = TYPE_IMMEDIATE_VERTICAL -> c8.acc
                    [] srcType = TYPE_ADDR_FROM_IMMEDIATE -> imm2.acc \cup {addr2}
                    [] srcType = TYPE_IMMEDIATE_LEFT -> {left}
                    [] OTHER -> {right}),
         jumpTaken |-> jumpTaken,
         jumpIndex |-> jumpIndex,
         \* the operand sites: the cells the offset and the tested value
         \* come from (for TYPE_ADDR_FROM_IMMEDIATE, the cells of the pointer)
         jump |-> [offset |-> offset,
                   target |-> resolveXY(ip, locX, locY, offset),
                   condVal |-> condVal,
                   offsetSite |->
                       CASE srcType = TYPE_IMMEDIATE_VERTICAL -> imm1.acc
                         [] srcType = TYPE_ADDR_FROM_IMMEDIATE -> imm1.acc
                         [] srcType = TYPE_IMMEDIATE_LEFT -> {left}
                         [] OTHER -> {right},
                   condSite |->
                       CASE srcType = TYPE_IMMEDIATE_VERTICAL -> c8.acc
                         [] srcType = TYPE_ADDR_FROM_IMMEDIATE -> imm2.acc
                         [] srcType = TYPE_IMMEDIATE_LEFT -> {left}
                         [] OTHER -> {right}],
         wrote |-> {}]))))))))))

\* vm.go:238-249 ip.Soup[...] = result: the soup after the store to the cells
\* of dest (one cell, or none), with "the cell after it is written as well" as
\* its mutant
store_Spill(s, dest, result) ==
    [i \in DOMAIN s |-> IF i \in dest \/ (i - 1) \in dest THEN result ELSE s[i]]

store(s, dest, result) ==
    [i \in DOMAIN s |-> IF i \in dest THEN result ELSE s[i]]

\* vm.go:209-250 the ALU branch of IP.Step: operands, result, destination
StepALU(ip, s, f1, aluOp, srcType, destType) ==
    LET locX == ip.X
        locY == ip.Y
        self == to1D(ip, locX, locY)
        left == to1D(ip, (locX - 1), locY)
        right == to1D(ip, (locX + 1), locY)
        up == to1D(ip, locX, (locY - 1))
        down == to1D(ip, locX, (locY + 1))
    IN
    Bind(fetchImmediate(ip, s, f1), LAMBDA imm1 :
    Bind(resolveAddress(ip, locX, locY, imm1.val), LAMBDA a1 :
    Bind(fetchImmediate(ip, s, imm1.f), LAMBDA imm2 :
    Bind(resolveAddress(ip, locX, locY, imm2.val), LAMBDA a2 :
    Bind(IF srcType = TYPE_ADDR_FROM_IMMEDIATE THEN a1 ELSE -1, LAMBDA src1Addr :
    Bind(CASE srcType = TYPE_IMMEDIATE_VERTICAL -> SoupAt(s, up)
           [] srcType = TYPE_ADDR_FROM_IMMEDIATE -> SoupAt(s, a1)
           [] srcType = TYPE_IMMEDIATE_LEFT -> SoupAt(s, left)
           [] OTHER -> SoupAt(s, right), LAMBDA src1Val :
    Bind(CASE srcType = TYPE_IMMEDIATE_VERTICAL -> SoupAt(s, down)
           [] srcType = TYPE_ADDR_FROM_IMMEDIATE -> SoupAt(s, a2)
           [] srcType = TYPE_IMMEDIATE_LEFT -> SoupAt(s, right)
           [] OTHER -> SoupAt(s, left), LAMBDA src2Val :
    Bind(CASE aluOp = ALU_NAND -> Not8(And8(src1Val, src2Val))
           [] aluOp = ALU_XOR -> Xor8(src1Val, src2Val)
           [] OTHER -> src2Val, LAMBDA result :
    Bind(CASE destType = 0 -> {self}
           [] destType = 1 -> {left}
           [] destType = 2 -> {right}
           [] OTHER -> IF src1Addr # -1 THEN {src1Addr} ELSE {}, LAMBDA dest :
        [X |-> ip.X,
         Y |-> ip.Y,
         soup |-> store(s, dest, result),
         acc |-> (CASE srcType = TYPE_IMMEDIATE_VERTICAL -> {up, down}
                    [] srcType = TYPE_ADDR_FROM_IMMEDIATE ->
                           imm1.acc \cup imm2.acc \cup {a1, a2}
                    [] OTHER -> {left, right})
                 \cup dest,
         jumpTaken |-> FALSE,
         jumpIndex |-> -1,
         jump |-> NoJump,
         wrote |-> dest])))))))))

\* vm.go:252-259 the final random movement, direction = rand.Intn(4)
Directions == 0..3

RandomMove(x, y, direction) ==
    CASE direction = 0 -> <<x, (y - 1)>>
      [] direction = 1 -> <<x, (y + 1)>>
      [] direction = 2 -> <<(x - 1), y>>
      [] OTHER -> <<(x + 1), y>>

\* vm.go:265 ip.Steps++, with "a taken jump returns before the increment" as
\* its mutant
StepsAfter_SkipOnJump(steps, jumpTaken) == IF jumpTaken THEN steps ELSE steps + 1

StepsAfter(steps, jumpTaken) == steps + 1

\* vm.go:107-266 IP.Step on IP record ip and soup s, with the direction drawn
\* by rand.Intn(4).  The result holds the IP after the call, the soup after
\* the call, the set acc of soup indices the call read or wrote, and panics:
\* a division by zero in wrap or an index outside the slice.
IPStep(ip, s, direction) ==
    IF ip.SoupDimX = 0 \/ ip.SoupDimY = 0
    THEN [ip |-> ip, soup |-> s, acc |-> {}, jumpTaken |-> FALSE,
          jumpIndex |-> -1, jump |-> NoJump, base |-> <<ip.X, ip.Y>>,
          wrote |-> {}, aluOp |-> 0, srcType |-> 0, destType |-> 0,
          panics |-> TRUE]
    ELSE
    Bind(to1D(ip, ip.X, ip.Y), LAMBDA rule :
    Bind(U8(SoupAt(s, rule)), LAMBDA ruleDigest :
    Bind(advanceFetch(ip, <<ip.X, ip.Y>>), LAMBDA f1 :
    Bind((ruleDigest \div 64) % 4, LAMBDA aluOp :
    Bind((ruleDigest \div 16) % 4, LAMBDA srcType :
    Bind(ruleDigest % 4, LAMBDA destType :
    Bind(IF isJump(aluOp)
         THEN StepJump(ip, s, f1, srcType, destType)
         ELSE StepALU(ip, s, f1, aluOp, srcType, destType), LAMBDA r :
    Bind(RandomMove(r.X, r.Y, direction), LAMBDA moved :
    Bind({rule} \cup r.acc, LAMBDA acc :
        [ip |-> [ip EXCEPT !.X = wrap(moved[1], ip.SoupDimX),
                           !.Y = wrap(moved[2], ip.SoupDimY),
                           !.Steps = StepsAfter(ip.Steps, r.jumpTaken)],
         soup |-> r.soup,
         acc |-> acc,
         jumpTaken |-> r.jumpTaken,
         jumpIndex |-> r.jumpIndex,
         jump |-> r.jump,
         base |-> <<r.X, r.Y>>,
         wrote |-> r.wrote,
         aluOp |-> aluOp,
         srcType |-> srcType,
         destType |-> destType,
         panics |-> ~(acc \subseteq DOMAIN s)])))))))))

(***************************************************************************)
(* The population supervisor: state.go:347-373 AppState, and the           *)
(* goroutines that run against it.                                         *)
(***************************************************************************)
VARIABLES
    soup,                  \* s.soup
    population,            \* s.population: IP id -> IP
    nextIPID,              \* s.nextIPID
    randSeed,              \* s.randSeed
    generation,            \* s.generation
    ipCount,               \* s.ipCount
    cosmicRayRate,         \* s.cosmicRayRate, in thousandths
    paused,                \* s.paused, 0 running, 1 paused
    Use32BitAddressing,    \* s.Use32BitAddressing
    UseRelativeAddressing, \* s.UseRelativeAddressing
    ipStopChan,            \* s.ipStopChan: [id, closed]
    ipWg,                  \* s.ipWg: the WaitGroup counter
    viewStartIndex,        \* s.viewStartIndex
    viewEndIndex,          \* s.viewEndIndex
    visRequestChan,        \* s.visRequestChan: buffered requests, 0 or 1
    workers,               \* runIP goroutines: IP id -> [sel, stp] counts
    cosmic,                \* runCosmicRaySimulator: [pc, flips]
    conn,                  \* readPump goroutines: connection -> [pc, n, todo]
    panicked,              \* the process died of a runtime panic
    phase,                 \* "vm", "wrap", "resolve", "snap", "hub", "running", "exited", "loaded", "resaved"
    snapFile,              \* the snapshot file written at exit
    snapSrc,               \* the supervisor state the snapshot was taken of
    snapFile2,             \* the snapshot written by the reloaded supervisor
    savePc,                \* saveSnapshot alone: "idle", or "created" after os.Create
    snapPrev,              \* what the snapshot path held when the save began
    snapErr,               \* the error the last saveSnapshot or loadSnapshot returned
    vmIn,                  \* a function called alone: the arguments of the call
    vmOut,                 \* a function called alone: what the call read, wrote, decided
    vis,                   \* RunVisualization: [pc], "select" or "tick"; with sendFrame
                           \* in steps, its locals and the buffer currentIndices as well
    hub,                   \* Hub.Run alone: the hub, its clients and their channels
    singleStep             \* the flag-polling supervisor alone: its singleStep flag

vars == <<soup, population, nextIPID, randSeed, generation, ipCount,
          cosmicRayRate, paused, Use32BitAddressing, UseRelativeAddressing,
          ipStopChan, ipWg, viewStartIndex, viewEndIndex, visRequestChan,
          workers, cosmic, conn, panicked, phase, snapFile,
          snapSrc, snapFile2, savePc, snapPrev, snapErr, vmIn, vmOut, vis, hub,
                   singleStep>>

appVars == <<soup, population, nextIPID, randSeed, generation, ipCount,
             cosmicRayRate, paused, Use32BitAddressing, UseRelativeAddressing,
             ipStopChan, ipWg, viewStartIndex, viewEndIndex, visRequestChan>>

snapVars == <<phase, snapFile, snapSrc, snapFile2, savePc, snapPrev, snapErr,
              vmIn, vmOut, vis, hub, singleStep>>

\* main.go:26 StatsAndVisSize, scaled to the model's soup: a square window
StatsAndVisSize == 4

\* state.go:388 the default rate 0.001, in thousandths
DefaultRate == 1

NoFile == [none |-> TRUE]

\* state.go:696-705 RunVisualization waits in its select
IdleVis == [pc |-> "select"]

\* no hub is part of the run
NoHub == [none |-> TRUE]

\* the soup initializeSimulation draws (state.go:462-464) in the model, as a
\* repeated byte pattern: 98 is XOR left,right -> right; 5 and 19 are NANDs;
\* -31 and -64 are jumps (on the left cell, on the two cells fetched next)
SoupOf(pattern) == [i \in 0..(N - 1) |-> pattern[(i % Len(pattern)) + 1]]

InitSoups == {SoupOf(<<98, 0, 5, 19, -31, -64>>)}

\* time.Now().UnixNano() seeds (state.go:459)
Seeds == {11}

IPIds == 1..NumIPs

\* state.go:376-390 NewAppState
NewAppState ==
    [soup |-> [i \in 0..(N - 1) |-> 0],
     population |-> <<>>,
     nextIPID |-> 0,
     randSeed |-> 0,
     generation |-> 0,
     ipCount |-> 0,
     cosmicRayRate |-> DefaultRate,
     paused |-> 0,
     Use32BitAddressing |-> FALSE,
     UseRelativeAddressing |-> TRUE,
     ipStopChan |-> [id |-> 0, closed |-> FALSE],
     ipWg |-> 0,
     viewStartIndex |-> 0,
     viewEndIndex |-> StatsAndVisSize,
     visRequestChan |-> 0]

\* state.go:458-476 initializeSimulation on a new AppState a: the seed, the
\* random soup s0 and the random start cells start[i] = <<x, y>>
initializeSimulation(a, seed, s0, start) ==
    [a EXCEPT !.randSeed = seed,
              !.soup = s0,
              !.ipCount = NumIPs,
              !.nextIPID = a.nextIPID + NumIPs,
              !.population =
                  [id \in (a.nextIPID + 1)..(a.nextIPID + NumIPs) |->
                      NewIP(id, s0, start[id - a.nextIPID][1],
                            start[id - a.nextIPID][2], DIM_X,
                            a.Use32BitAddressing, a.UseRelativeAddressing)]]

\* the variables of the supervisor take the fields of AppState record a
InstallApp(a) ==
    /\ soup = a.soup
    /\ population = a.population
    /\ nextIPID = a.nextIPID
    /\ randSeed = a.randSeed
    /\ generation = a.generation
    /\ ipCount = a.ipCount
    /\ cosmicRayRate = a.cosmicRayRate
    /\ paused = a.paused
    /\ Use32BitAddressing = a.Use32BitAddressing
    /\ UseRelativeAddressing = a.UseRelativeAddressing
    /\ ipStopChan = a.ipStopChan
    /\ ipWg = a.ipWg
    /\ viewStartIndex = a.viewStartIndex
    /\ viewEndIndex = a.viewEndIndex
    /\ visRequestChan = a.visRequestChan

\* the connections whose readPump is running
Conns == {1}

\* log is the last line the connection's goroutine logged, base the Steps of
\* every IP when the Range of Step began
IdleConn == [pc |-> "idle", n |-> 0, sets |-> 0, todo |-> {}, log |-> "", base |-> <<>>]

\* the program's start: LaunchIPs (state.go:495-502) for the population, the
\* cosmic-ray and visualization goroutines, one readPump per connection
StartGoroutines(a) ==
    /\ workers = [id \in DOMAIN a.population |-> [sel |-> 1, stp |-> 0]]
    /\ cosmic = [pc |-> "check", flips |-> 0]
    /\ conn = [c \in Conns |-> IdleConn]

\* the start cells rand.Int31n draws (state.go:468-469) in the model: the
\* first IP in one corner, the others in the opposite corner
InitStarts == {[i \in IPIds |-> IF i = 1 THEN <<0, 0>>
                                ELSE <<DIM_X - 1, DIM_Y - 1>>]}

Init ==
    /\ \E seed \in Seeds, s0 \in InitSoups, start \in InitStarts :
          LET a == initializeSimulation(NewAppState, seed, s0, start)
          IN  /\ InstallApp([a EXCEPT !.ipWg = NumIPs])
              /\ StartGoroutines(a)
    /\ panicked = FALSE
    /\ phase = "running"
    /\ snapFile = NoFile
    /\ snapSrc = NoFile
    /\ snapFile2 = NoFile
    /\ savePc = "idle"
    /\ snapPrev = NoFile
    /\ snapErr = ""
    /\ vis = IdleVis
    /\ hub = NoHub
    /\ singleStep = 0
    /\ vmIn = NoFile
    /\ vmOut = NoFile

Running == phase = "running" /\ ~panicked

(***************************************************************************)
(* state.go:479-490 runIP, one goroutine per launched worker.              *)
(***************************************************************************)
\* the select: a closed s.ipStopChan ends the goroutine (deferred ipWg.Done),
\* otherwise the default case starts p.Step(); "the default case is taken
\* whatever the channel" is the mutant of the latter
WorkerExit(id) ==
    /\ Running
    /\ workers[id].sel > 0
    /\ ipStopChan.closed
    /\ workers' = [workers EXCEPT ![id].sel = @ - 1]
    /\ ipWg' = ipWg - 1
    /\ UNCHANGED <<soup, population, nextIPID, randSeed, generation, ipCount,
                   cosmicRayRate, paused, Use32BitAddressing,
                   UseRelativeAddressing, ipStopChan, viewStartIndex,
                   viewEndIndex, visRequestChan, cosmic, conn,
                   panicked, snapVars>>

WorkerDefault_IgnoreStop(id) ==
    /\ Running
    /\ workers[id].sel > 0
    /\ population[id].Steps < MaxSteps
    /\ workers' = [workers EXCEPT ![id].sel = @ - 1, ![id].stp = @ + 1]
    /\ UNCHANGED <<appVars, cosmic, conn, panicked, snapVars>>

WorkerDefault(id) ==
    /\ Running
    /\ workers[id].sel > 0
    /\ ~ipStopChan.closed
    /\ population[id].Steps < MaxSteps
    /\ workers' = [workers EXCEPT ![id].sel = @ - 1, ![id].stp = @ + 1]
    /\ UNCHANGED <<appVars, cosmic, conn, panicked, snapVars>>

\* p.Step() of the default case, then runtime.Gosched() and the next select
WorkerStep(id) ==
    /\ Running
    /\ workers[id].stp > 0
    /\ \E direction \in Directions :
          \E r \in {IPStep(population[id], soup, direction)} :
              /\ population' = [population EXCEPT ![id] = r.ip]
              /\ soup' = r.soup
              /\ panicked' = r.panics
    /\ workers' = [workers EXCEPT ![id].stp = @ - 1, ![id].sel = @ + 1]
    /\ UNCHANGED <<nextIPID, randSeed, generation, ipCount, cosmicRayRate,
                   paused, Use32BitAddressing, UseRelativeAddressing,
                   ipStopChan, ipWg, viewStartIndex, viewEndIndex,
                   visRequestChan, cosmic, conn, snapVars>>

(***************************************************************************)
(* state.go:510-526 runCosmicRaySimulator.                                 *)
(***************************************************************************)
\* the bits rand.Intn(8) draws in the model: the lowest and the sign bit
FlipBits == {0, 7}

\* the cells rand.Intn(len(s.soup)) draws in the model: the first and the last
FlipCells(s) == {i \in DOMAIN s : i = 0 \/ i + 1 = Cardinality(DOMAIN s)}

\* s.soup[index] ^= (1 << bit) on an int8 cell, with "the bit is set, not
\* flipped" as its mutant
FlipBit_Set(v, bit) == S8(U8(v) + (1 - Bit(U8(v), bit)) * 2 ^ bit)

FlipBit(v, bit) == S8(BitXor(U8(v), 2 ^ bit))

\* state.go:513 the load of s.paused that lets an iteration through
CosmicCheck ==
    /\ Running
    /\ cosmic.pc = "check"
    /\ paused = 0
    /\ cosmic' = [cosmic EXCEPT !.pc = "gate"]
    /\ UNCHANGED <<appVars, workers, conn, panicked, snapVars>>

\* state.go:517-524 with rand.Float64() < p: one bit of one cell is flipped
CosmicFlip ==
    /\ Running
    /\ cosmic.pc = "gate"
    /\ cosmicRayRate > 0
    /\ cosmic.flips < MaxFlips
    /\ \E index \in FlipCells(soup), bit \in FlipBits :
          soup' = [soup EXCEPT ![index] = FlipBit(@, bit)]
    /\ cosmic' = [pc |-> "check", flips |-> cosmic.flips + 1]
    /\ UNCHANGED <<population, nextIPID, randSeed, generation, ipCount,
                   cosmicRayRate, paused, Use32BitAddressing,
                   UseRelativeAddressing, ipStopChan, ipWg, viewStartIndex,
                   viewEndIndex, visRequestChan, workers, conn,
                   panicked, snapVars>>

\* state.go:519 with p <= 0 or rand.Float64() >= p: nothing is flipped
CosmicSkip ==
    /\ Running
    /\ cosmic.pc = "gate"
    /\ cosmicRayRate < 1000
    /\ cosmic' = [cosmic EXCEPT !.pc = "check"]
    /\ UNCHANGED <<appVars, workers, conn, panicked, snapVars>>

(***************************************************************************)
(* state.go:696-705 RunVisualization: the two cases of its select.  The    *)
(* ticker case is part of SpecVis only: it changes nothing of the          *)
(* supervisor.                                                             *)
(***************************************************************************)
\* state.go:702-703 a request is taken from visRequestChan and a frame sent
VisRequest ==
    /\ Running
    /\ vis.pc = "select"
    /\ visRequestChan > 0
    /\ visRequestChan' = visRequestChan - 1
    /\ UNCHANGED <<soup, population, nextIPID, randSeed, generation, ipCount,
                   cosmicRayRate, paused, Use32BitAddressing,
                   UseRelativeAddressing, ipStopChan, ipWg, viewStartIndex,
                   viewEndIndex, workers, cosmic, conn, panicked, snapVars>>

\* state.go:698-699 case <-ticker.C: the load of s.paused finds 0
TickCheck ==
    /\ Running
    /\ vis.pc = "select"
    /\ paused = 0
    /\ vis' = [pc |-> "tick"]
    /\ UNCHANGED <<appVars, workers, cosmic, conn, panicked, phase, snapFile,
                   snapSrc, snapFile2, savePc, snapPrev, snapErr, vmIn, vmOut,
                   hub, singleStep>>

\* state.go:700 sendFrame() of the ticker case: the frame is sampled and sent
TickFrame ==
    /\ Running
    /\ vis.pc = "tick"
    /\ vis' = IdleVis
    /\ UNCHANGED <<appVars, workers, cosmic, conn, panicked, phase, snapFile,
                   snapSrc, snapFile2, savePc, snapPrev, snapErr, vmIn, vmOut,
                   hub, singleStep>>

\* state.go:536-539, 567-570, 587-590: the non-blocking send on visRequestChan
\* (capacity 1): the channel after the select
SendVisRequest(ch) == IF ch < 1 THEN ch + 1 ELSE ch

(***************************************************************************)
(* part_000:44-109 Client.readPump: one control message at a time, each    *)
(* handled by a call into AppState on the connection's own goroutine.      *)
(***************************************************************************)
\* the values the control source sends in the model
ViewInputs == {-1, 1}
PtrInputs == {-1, N - 2, N + 1}
IdInputs == {1, NumIPs + 1}
RateInputs == {0, 1000}

CanRecv(c) ==
    /\ Running
    /\ conn[c].pc = "idle"
    /\ conn[c].n < MaxCmds

CanRecvSet(c) ==
    /\ CanRecv(c)
    /\ conn[c].sets < MaxSets

\* part_000:78-89 {type: "command"}: the call starts; "step" is taken only
\* while every IP is below MaxSteps
RecvCommand(c) ==
    /\ CanRecv(c)
    /\ \E command \in {"pause", "resume", "step"} :
          /\ command = "step" => \A id \in DOMAIN population :
                                     population[id].Steps < MaxSteps
          /\ conn' = [conn EXCEPT ![c].n = @ + 1,
                                  ![c].pc = CASE command = "pause" -> "PauseCAS"
                                              [] command = "resume" -> "ResumeCAS"
                                              [] OTHER -> "StepCheck",
                                  ![c].log = CASE command = "pause" -> "Pausing simulation"
                                               [] command = "resume" -> "Resuming simulation"
                                               [] OTHER -> "Stepping simulation"]
    /\ UNCHANGED <<appVars, workers, cosmic, panicked, snapVars>>

\* part_000:87-88, 105-106 an unknown command or type is logged and the loop
\* goes on to the next message.  In the mutant the unknown command falls
\* into the case of "pause".
RecvUnknown_AsPause(c) ==
    /\ CanRecv(c)
    /\ conn' = [conn EXCEPT ![c].n = @ + 1, ![c].pc = "PauseCAS",
                            ![c].log = "Unknown"]
    /\ UNCHANGED <<appVars, workers, cosmic, panicked, snapVars>>

RecvUnknown(c) ==
    /\ CanRecv(c)
    /\ conn' = [conn EXCEPT ![c].n = @ + 1, ![c].log = "Unknown"]
    /\ UNCHANGED <<appVars, workers, cosmic, panicked, snapVars>>

\* state.go:531 Pause: CompareAndSwap(&s.paused, 0, 1)
PauseCAS(c) ==
    /\ Running
    /\ conn[c].pc = "PauseCAS"
    /\ IF paused = 0
       THEN /\ paused' = 1
            /\ conn' = [conn EXCEPT ![c].pc = "PauseClose"]
       ELSE /\ paused' = paused
            /\ conn' = [conn EXCEPT ![c].pc = "idle",
                                    ![c].log = "Simulation is already paused."]
    /\ UNCHANGED <<soup, population, nextIPID, randSeed, generation, ipCount,
                   cosmicRayRate, Use32BitAddressing, UseRelativeAddressing,
                   ipStopChan, ipWg, viewStartIndex, viewEndIndex,
                   visRequestChan, workers, cosmic, panicked,
                   snapVars>>

\* state.go:532 close(s.ipStopChan); closing a closed channel panics
PauseClose(c) ==
    /\ Running
    /\ conn[c].pc = "PauseClose"
    /\ panicked' = ipStopChan.closed
    /\ ipStopChan' = [ipStopChan EXCEPT !.closed = TRUE]
    /\ conn' = [conn EXCEPT ![c].pc = "PauseWait"]
    /\ UNCHANGED <<soup, population, nextIPID, randSeed, generation, ipCount,
                   cosmicRayRate, paused, Use32BitAddressing,
                   UseRelativeAddressing, ipWg, viewStartIndex, viewEndIndex,
                   visRequestChan, workers, cosmic, snapVars>>

\* state.go:533 s.ipWg.Wait(), with "Pause does not join" as its mutant
PauseWait_NoJoin(c) ==
    /\ Running
    /\ conn[c].pc = "PauseWait"
    /\ conn' = [conn EXCEPT ![c].pc = "PauseVis"]
    /\ UNCHANGED <<appVars, workers, cosmic, panicked, snapVars>>

PauseWait(c) ==
    /\ Running
    /\ conn[c].pc = "PauseWait"
    /\ ipWg = 0
    /\ conn' = [conn EXCEPT ![c].pc = "PauseVis"]
    /\ UNCHANGED <<appVars, workers, cosmic, panicked, snapVars>>

\* state.go:536-539 the frame request that ends Pause
PauseVis(c) ==
    /\ Running
    /\ conn[c].pc = "PauseVis"
    /\ visRequestChan' = SendVisRequest(visRequestChan)
    /\ conn' = [conn EXCEPT ![c].pc = "idle"]
    /\ UNCHANGED <<soup, population, nextIPID, randSeed, generation, ipCount,
                   cosmicRayRate, paused, Use32BitAddressing,
                   UseRelativeAddressing, ipStopChan, ipWg, viewStartIndex,
                   viewEndIndex, workers, cosmic, panicked,
                   snapVars>>

\* state.go:548 Resume: CompareAndSwap(&s.paused, 1, 0), with "Resume does not
\* test the flag" as its mutant
ResumeCAS_Unconditional(c) ==
    /\ Running
    /\ conn[c].pc = "ResumeCAS"
    /\ paused' = 0
    /\ conn' = [conn EXCEPT ![c].pc = "ResumeChan"]
    /\ UNCHANGED <<soup, population, nextIPID, randSeed, generation, ipCount,
                   cosmicRayRate, Use32BitAddressing, UseRelativeAddressing,
                   ipStopChan, ipWg, viewStartIndex, viewEndIndex,
                   visRequestChan, workers, cosmic, panicked,
                   snapVars>>

ResumeCAS(c) ==
    /\ Running
    /\ conn[c].pc = "ResumeCAS"
    /\ IF paused = 1
       THEN /\ paused' = 0
            /\ conn' = [conn EXCEPT ![c].pc = "ResumeChan"]
       ELSE /\ paused' = paused
            /\ conn' = [conn EXCEPT ![c].pc = "idle",
                                    ![c].log = "Simulation is already running."]
    /\ UNCHANGED <<soup, population, nextIPID, randSeed, generation, ipCount,
                   cosmicRayRate, Use32BitAddressing, UseRelativeAddressing,
                   ipStopChan, ipWg, viewStartIndex, viewEndIndex,
                   visRequestChan, workers, cosmic, panicked,
                   snapVars>>

\* state.go:549 s.ipStopChan = make(chan struct{}), then LaunchIPs ranges
\* over the population
ResumeChan(c) ==
    /\ Running
    /\ conn[c].pc = "ResumeChan"
    /\ ipStopChan' = [id |-> ipStopChan.id + 1, closed |-> FALSE]
    /\ conn' = [conn EXCEPT ![c].pc = "LaunchIPs",
                            ![c].todo = DOMAIN population]
    /\ UNCHANGED <<soup, population, nextIPID, randSeed, generation, ipCount,
                   cosmicRayRate, paused, Use32BitAddressing,
                   UseRelativeAddressing, ipWg, viewStartIndex, viewEndIndex,
                   visRequestChan, workers, cosmic, panicked,
                   snapVars>>

\* state.go:495-502 LaunchIPs: s.ipWg.Add(1); go s.runIP(ip) for the next IP
\* of the Range; the call returns after the last one
LaunchIPs(c) ==
    /\ Running
    /\ conn[c].pc = "LaunchIPs"
    /\ \E id \in conn[c].todo :
          /\ ipWg' = ipWg + 1
          /\ workers' = [workers EXCEPT ![id].sel = @ + 1]
          /\ conn' = [conn EXCEPT ![c].todo = @ \ {id},
                                  ![c].pc = IF conn[c].todo = {id}
                                            THEN "idle" ELSE "LaunchIPs"]
    /\ UNCHANGED <<soup, population, nextIPID, randSeed, generation, ipCount,
                   cosmicRayRate, paused, Use32BitAddressing,
                   UseRelativeAddressing, ipStopChan, viewStartIndex,
                   viewEndIndex, visRequestChan, cosmic, panicked,
                   snapVars>>

\* state.go:559 Step: the load of s.paused, with "Step does not test the
\* flag" as its mutant
StepCheck_Unconditional(c) ==
    /\ Running
    /\ conn[c].pc = "StepCheck"
    /\ conn' = [conn EXCEPT ![c].pc = "StepRange",
                            ![c].todo = DOMAIN population,
                            ![c].base = [id \in DOMAIN population |->
                                            population[id].Steps]]
    /\ UNCHANGED <<appVars, workers, cosmic, panicked, snapVars>>

StepCheck(c) ==
    /\ Running
    /\ conn[c].pc = "StepCheck"
    /\ conn' = IF paused = 1
               THEN [conn EXCEPT ![c].pc = "StepRange",
                                 ![c].todo = DOMAIN population,
                                 ![c].base = [id \in DOMAIN population |->
                                                 population[id].Steps]]
               ELSE [conn EXCEPT ![c].pc = "idle",
                                 ![c].log = "Step command received, but simulation is not paused."]
    /\ UNCHANGED <<appVars, workers, cosmic, panicked, snapVars>>

\* state.go:560-564 the Range of Step: ip.Step() on the next IP, with "the
\* Range stops after the first IP" as its mutant
StepRange_FirstOnly(c) ==
    /\ Running
    /\ conn[c].pc = "StepRange"
    /\ conn[c].todo # {}
    /\ \E id \in conn[c].todo, direction \in Directions :
          \E r \in {IPStep(population[id], soup, direction)} :
              /\ population' = [population EXCEPT ![id] = r.ip]
              /\ soup' = r.soup
              /\ panicked' = r.panics
              /\ conn' = [conn EXCEPT ![c].todo = {}]
    /\ UNCHANGED <<nextIPID, randSeed, generation, ipCount, cosmicRayRate,
                   paused, Use32BitAddressing, UseRelativeAddressing,
                   ipStopChan, ipWg, viewStartIndex, viewEndIndex,
                   visRequestChan, workers, cosmic, snapVars>>

StepRange(c) ==
    /\ Running
    /\ conn[c].pc = "StepRange"
    /\ conn[c].todo # {}
    /\ \E id \in conn[c].todo, direction \in Directions :
          \E r \in {IPStep(population[id], soup, direction)} :
              /\ population' = [population EXCEPT ![id] = r.ip]
              /\ soup' = r.soup
              /\ panicked' = r.panics
              /\ conn' = [conn EXCEPT ![c].todo = @ \ {id}]
    /\ UNCHANGED <<nextIPID, randSeed, generation, ipCount, cosmicRayRate,
                   paused, Use32BitAddressing, UseRelativeAddressing,
                   ipStopChan, ipWg, viewStartIndex, viewEndIndex,
                   visRequestChan, workers, cosmic, snapVars>>

\* state.go:567-570 the frame request that ends Step
StepVis(c) ==
    /\ Running
    /\ conn[c].pc = "StepRange"
    /\ conn[c].todo = {}
    /\ visRequestChan' = SendVisRequest(visRequestChan)
    /\ conn' = [conn EXCEPT ![c].pc = "idle", ![c].base = <<>>,
                            ![c].log = "Stepped all IPs."]
    /\ UNCHANGED <<soup, population, nextIPID, randSeed, generation, ipCount,
                   cosmicRayRate, paused, Use32BitAddressing,
                   UseRelativeAddressing, ipStopChan, ipWg, viewStartIndex,
                   viewEndIndex, workers, cosmic, panicked,
                   snapVars>>

\* state.go:577-591 SetViewStartIndex (part_000:90-92)
SetViewStartIndex(c) ==
    /\ CanRecvSet(c)
    /\ \E index \in ViewInputs :
          /\ viewStartIndex' = IF index < 0 THEN 0 ELSE index
          /\ viewEndIndex' = viewStartIndex' + StatsAndVisSize
    /\ visRequestChan' = SendVisRequest(visRequestChan)
    /\ conn' = [conn EXCEPT ![c].n = @ + 1, ![c].sets = @ + 1,
                            ![c].log = "set_view_start_index"]
    /\ UNCHANGED <<soup, population, nextIPID, randSeed, generation, ipCount,
                   cosmicRayRate, paused, Use32BitAddressing,
                   UseRelativeAddressing, ipStopChan, ipWg, workers, cosmic, panicked, snapVars>>

\* state.go:604-611 Set32BitAddressing(enabled) (part_000:93-95).  The mutant
\* leaves s.Use32BitAddressing, the flag given to IPs created later, as it was.
Set32BitAddressingTo_IPsOnly(c, enabled) ==
    /\ CanRecvSet(c)
    /\ Use32BitAddressing' = Use32BitAddressing
    /\ population' = [id \in DOMAIN population |->
                         [population[id] EXCEPT !.Use32BitAddressing = enabled]]
    /\ conn' = [conn EXCEPT ![c].n = @ + 1, ![c].sets = @ + 1,
                            ![c].log = "set_32_bit_addressing"]
    /\ UNCHANGED <<soup, nextIPID, randSeed, generation, ipCount,
                   cosmicRayRate, paused, UseRelativeAddressing, ipStopChan,
                   ipWg, viewStartIndex, viewEndIndex, visRequestChan,
                   workers, cosmic, panicked, snapVars>>

Set32BitAddressingTo(c, enabled) ==
    /\ CanRecvSet(c)
    /\ Use32BitAddressing' = enabled
    /\ population' = [id \in DOMAIN population |->
                         [population[id] EXCEPT !.Use32BitAddressing = enabled]]
    /\ conn' = [conn EXCEPT ![c].n = @ + 1, ![c].sets = @ + 1,
                            ![c].log = "set_32_bit_addressing"]
    /\ UNCHANGED <<soup, nextIPID, randSeed, generation, ipCount,
                   cosmicRayRate, paused, UseRelativeAddressing, ipStopChan,
                   ipWg, viewStartIndex, viewEndIndex, visRequestChan,
                   workers, cosmic, panicked, snapVars>>

\* part_000:93-95 a set_32_bit_addressing message: enabled is msg.Value == 1
Set32BitAddressing(c) == \E enabled \in BOOLEAN : Set32BitAddressingTo(c, enabled)

\* state.go:594-601 SetRelativeAddressing(enabled) (part_000:96-98)
SetRelativeAddressingTo(c, enabled) ==
    /\ CanRecvSet(c)
    /\ UseRelativeAddressing' = enabled
    /\ population' = [id \in DOMAIN population |->
                         [population[id] EXCEPT !.UseRelativeAddressing = enabled]]
    /\ conn' = [conn EXCEPT ![c].n = @ + 1, ![c].sets = @ + 1,
                            ![c].log = "set_relative_addressing"]
    /\ UNCHANGED <<soup, nextIPID, randSeed, generation, ipCount,
                   cosmicRayRate, paused, Use32BitAddressing, ipStopChan,
                   ipWg, viewStartIndex, viewEndIndex, visRequestChan,
                   workers, cosmic, panicked, snapVars>>

\* part_000:96-98 a set_relative_addressing message
SetRelativeAddressing(c) ==
    \E enabled \in BOOLEAN : SetRelativeAddressingTo(c, enabled)

\* state.go:616-625 SetIPPtr(id, ptr) (part_000:102-104): ptr % SoupDimX,
\* ptr / SoupDimX.  The mutant decodes the pointer by the height.
SetIPPtrTo_ByHeight(c, id, ptr) ==
    /\ CanRecvSet(c)
    /\ population' = IF id \in DOMAIN population
                     THEN [population EXCEPT ![id].X = GoRem(ptr, DIM_Y),
                                             ![id].Y = GoDiv(ptr, DIM_Y)]
                     ELSE population
    /\ conn' = [conn EXCEPT ![c].n = @ + 1, ![c].sets = @ + 1,
                            ![c].log = "set_ip_ptr"]
    /\ UNCHANGED <<soup, nextIPID, randSeed, generation, ipCount,
                   cosmicRayRate, paused, Use32BitAddressing,
                   UseRelativeAddressing, ipStopChan, ipWg, viewStartIndex,
                   viewEndIndex, visRequestChan, workers, cosmic,
                   panicked, snapVars>>

SetIPPtrTo(c, id, ptr) ==
    /\ CanRecvSet(c)
    /\ population' = IF id \in DOMAIN population
                     THEN [population EXCEPT ![id].X = GoRem(ptr, DIM_X),
                                             ![id].Y = GoDiv(ptr, DIM_X)]
                     ELSE population
    /\ conn' = [conn EXCEPT ![c].n = @ + 1, ![c].sets = @ + 1,
                            ![c].log = "set_ip_ptr"]
    /\ UNCHANGED <<soup, nextIPID, randSeed, generation, ipCount,
                   cosmicRayRate, paused, Use32BitAddressing,
                   UseRelativeAddressing, ipStopChan, ipWg, viewStartIndex,
                   viewEndIndex, visRequestChan, workers, cosmic,
                   panicked, snapVars>>

\* part_000:102-104 a set_ip_ptr message with its id and ptr
SetIPPtr(c) == \E id \in IdInputs, ptr \in PtrInputs : SetIPPtrTo(c, id, ptr)

\* state.go:505-507 SetCosmicRayRate(rate) on AppState a: the rate is stored
\* as it comes
SetCosmicRayRate(a, rate) == [a EXCEPT !.cosmicRayRate = rate]

\* part_000:68-107 a set_cosmic_ray_rate message with value rate: the switch
\* on msg.Type has no case for it, so the default case logs it as an unknown
\* type and SetCosmicRayRate is not called
RecvSetCosmicRayRate(c, rate) ==
    /\ CanRecvSet(c)
    /\ conn' = [conn EXCEPT ![c].n = @ + 1, ![c].sets = @ + 1,
                            ![c].log = "Unknown"]
    /\ UNCHANGED <<appVars, workers, cosmic, panicked, snapVars>>

(***************************************************************************)
(* Snapshots: state.go:429-455 saveSnapshot, state.go:393-426 loadSnapshot *)
(* and main.go:43-49 SimulationState.                                      *)
(***************************************************************************)
\* vm.go:80-89 IP.CurrentState
CurrentState(ip, s) ==
    [ID |-> ip.ID, X |-> ip.X, Y |-> ip.Y, Steps |-> ip.Steps,
     CurrentInstruction |-> SoupAt(s, to1D(ip, ip.X, ip.Y))]

\* the orders in which sync.Map.Range may visit the keys
RangeOrders(keys) ==
    {o \in [1..Cardinality(keys) -> keys] :
        \A i, j \in DOMAIN o : i # j => o[i] # o[j]}

\* state.go:437-442 the SimulationState saveSnapshot encodes: NextIPID is not
\* set and keeps its zero value.  The mutant drops RandSeed as well.
saveSnapshot_NoSeed(a, order) ==
    [Generation |-> a.generation,
     Soup |-> a.soup,
     IPs |-> [i \in DOMAIN order |-> CurrentState(a.population[order[i]], a.soup)],
     NextIPID |-> 0,
     RandSeed |-> 0]

saveSnapshot(a, order) ==
    [Generation |-> a.generation,
     Soup |-> a.soup,
     IPs |-> [i \in DOMAIN order |-> CurrentState(a.population[order[i]], a.soup)],
     NextIPID |-> 0,
     RandSeed |-> a.randSeed]

\* state.go:418-422 the IPs loadSnapshot stores: one NewIP per saved entry, on
\* the loaded soup and with the supervisor's flags; the last entry stored
\* under an ID stays in the map
loadedIPs(a, state) ==
    LET ids == {state.IPs[i].ID : i \in DOMAIN state.IPs}
        last(id) == CHOOSE i \in DOMAIN state.IPs :
                        /\ state.IPs[i].ID = id
                        /\ \A j \in DOMAIN state.IPs :
                               state.IPs[j].ID = id => j <= i
    IN  [id \in ids |->
            NewIP(id, state.Soup, state.IPs[last(id)].X,
                  state.IPs[last(id)].Y, DIM_X,
                  a.Use32BitAddressing, a.UseRelativeAddressing)]

\* state.go:406-423 loadSnapshot on AppState a with the decoded state.  The
\* mutant leaves out the Range-Delete of state.go:412-416.
loadSnapshot_KeepOld(a, state) ==
    [a EXCEPT !.generation = state.Generation,
              !.soup = state.Soup,
              !.nextIPID = state.NextIPID,
              !.randSeed = state.RandSeed,
              !.ipCount = Len(state.IPs),
              !.population = loadedIPs(a, state) @@ a.population]

loadSnapshot(a, state) ==
    [a EXCEPT !.generation = state.Generation,
              !.soup = state.Soup,
              !.nextIPID = state.NextIPID,
              !.randSeed = state.RandSeed,
              !.ipCount = Len(state.IPs),
              !.population = loadedIPs(a, state)]

\* the AppState record of the running supervisor
App ==
    [soup |-> soup, population |-> population, nextIPID |-> nextIPID,
     randSeed |-> randSeed, generation |-> generation, ipCount |-> ipCount,
     cosmicRayRate |-> cosmicRayRate, paused |-> paused,
     Use32BitAddressing |-> Use32BitAddressing,
     UseRelativeAddressing |-> UseRelativeAddressing,
     ipStopChan |-> ipStopChan, ipWg |-> ipWg,
     viewStartIndex |-> viewStartIndex, viewEndIndex |-> viewEndIndex,
     visRequestChan |-> visRequestChan]

\* what a snapshot is meant to carry of AppState a
Saved(a) ==
    [soup |-> a.soup,
     ips |-> {[ID |-> a.population[id].ID, X |-> a.population[id].X,
               Y |-> a.population[id].Y, Steps |-> a.population[id].Steps] :
                  id \in DOMAIN a.population},
     nextIPID |-> a.nextIPID,
     generation |-> a.generation,
     randSeed |-> a.randSeed]

InstallAppNext(a) ==
    /\ soup' = a.soup
    /\ population' = a.population
    /\ nextIPID' = a.nextIPID
    /\ randSeed' = a.randSeed
    /\ generation' = a.generation
    /\ ipCount' = a.ipCount
    /\ cosmicRayRate' = a.cosmicRayRate
    /\ paused' = a.paused
    /\ Use32BitAddressing' = a.Use32BitAddressing
    /\ UseRelativeAddressing' = a.UseRelativeAddressing
    /\ ipStopChan' = a.ipStopChan
    /\ ipWg' = a.ipWg
    /\ viewStartIndex' = a.viewStartIndex
    /\ viewEndIndex' = a.viewEndIndex
    /\ visRequestChan' = a.visRequestChan

\* the experiment ends: the final snapshot is saved and the process exits,
\* which leaves the file and nothing of the process
FinalSave ==
    /\ Running
    /\ \E order \in RangeOrders(DOMAIN population) :
          snapFile' = saveSnapshot(App, order)
    /\ snapSrc' = Saved(App)
    /\ phase' = "exited"
    /\ InstallAppNext(NewAppState)
    /\ workers' = <<>>
    /\ cosmic' = [pc |-> "check", flips |-> 0]
    /\ conn' = [c \in DOMAIN conn |-> IdleConn]
    /\ UNCHANGED <<panicked, snapFile2, savePc, snapPrev, snapErr, vmIn, vmOut, vis, hub,
                   singleStep>>

\* a later run started with --load: NewAppState, then loadSnapshot
LoadFresh ==
    /\ phase = "exited"
    /\ InstallAppNext(loadSnapshot(NewAppState, snapFile))
    /\ phase' = "loaded"
    /\ UNCHANGED <<workers, cosmic, conn, panicked, snapFile,
                   snapSrc, snapFile2, savePc, snapPrev, snapErr, vmIn, vmOut, vis, hub,
                   singleStep>>

\* the reloaded supervisor saves in its turn
SaveAgain ==
    /\ phase = "loaded"
    /\ \E order \in RangeOrders(DOMAIN population) :
          snapFile2' = saveSnapshot(App, order)
    /\ phase' = "resaved"
    /\ UNCHANGED <<appVars, workers, cosmic, conn, panicked,
                   snapFile, snapSrc, savePc, snapPrev, snapErr, vmIn, vmOut, vis, hub,
                   singleStep>>

(***************************************************************************)
(* The running system.                                                     *)
(***************************************************************************)
Next ==
    \/ \E id \in DOMAIN workers : WorkerExit(id)
    \/ \E id \in DOMAIN workers : WorkerDefault(id)
    \/ \E id \in DOMAIN workers : WorkerStep(id)
    \/ CosmicCheck
    \/ CosmicFlip
    \/ CosmicSkip
    \/ VisRequest
    \/ \E c \in DOMAIN conn : RecvCommand(c)
    \/ \E c \in DOMAIN conn : RecvUnknown(c)
    \/ \E c \in DOMAIN conn : PauseCAS(c)
    \/ \E c \in DOMAIN conn : PauseClose(c)
    \/ \E c \in DOMAIN conn : PauseWait(c)
    \/ \E c \in DOMAIN conn : PauseVis(c)
    \/ \E c \in DOMAIN conn : ResumeCAS(c)
    \/ \E c \in DOMAIN conn : ResumeChan(c)
    \/ \E c \in DOMAIN conn : LaunchIPs(c)
    \/ \E c \in DOMAIN conn : StepCheck(c)
    \/ \E c \in DOMAIN conn : StepRange(c)
    \/ \E c \in DOMAIN conn : StepVis(c)
    \/ \E c \in DOMAIN conn : SetViewStartIndex(c)
    \/ \E c \in DOMAIN conn : Set32BitAddressing(c)
    \/ \E c \in DOMAIN conn : SetRelativeAddressing(c)
    \/ \E c \in DOMAIN conn : SetIPPtr(c)
    \/ \E c \in DOMAIN conn, rate \in RateInputs : RecvSetCosmicRayRate(c, rate)
    \/ FinalSave
    \/ LoadFresh
    \/ SaveAgain

Spec == Init /\ [][Next]_vars

(***************************************************************************)
(* The supervisor with the frame emitter and its ticker (SpecVis): the     *)
(* workers, the commands pause, resume and step, set_view_start_index, and *)
(* RunVisualization with both cases of its select.  RunVisualization is a  *)
(* goroutine of its own that nothing stops, and the select of Go chooses   *)
(* at random among the cases that are ready: the frame step is weakly      *)
(* fair, and the request case, which a pending ticker case disables and    *)
(* enables again, strongly fair.                                           *)
(***************************************************************************)
NextVis ==
    \/ \E id \in DOMAIN workers : WorkerExit(id)
    \/ \E id \in DOMAIN workers : WorkerDefault(id)
    \/ \E id \in DOMAIN workers : WorkerStep(id)
    \/ VisRequest
    \/ TickCheck
    \/ TickFrame
    \/ \E c \in DOMAIN conn : RecvCommand(c)
    \/ \E c \in DOMAIN conn : PauseCAS(c)
    \/ \E c \in DOMAIN conn : PauseClose(c)
    \/ \E c \in DOMAIN conn : PauseWait(c)
    \/ \E c \in DOMAIN conn : PauseVis(c)
    \/ \E c \in DOMAIN conn : ResumeCAS(c)
    \/ \E c \in DOMAIN conn : ResumeChan(c)
    \/ \E c \in DOMAIN conn : LaunchIPs(c)
    \/ \E c \in DOMAIN conn : StepCheck(c)
    \/ \E c \in DOMAIN conn : StepRange(c)
    \/ \E c \in DOMAIN conn : StepVis(c)
    \/ \E c \in DOMAIN conn : SetViewStartIndex(c)

FairnessVis == SF_vars(VisRequest) /\ WF_vars(TickFrame)

SpecVis == Init /\ [][NextVis]_vars /\ FairnessVis

(***************************************************************************)
(* The supervisor under several control connections (SpecMulti):           *)
(* handleWebSocket starts one readPump per connection (part_000:205-218),  *)
(* and each readPump calls Pause, Resume and Step on its own goroutine     *)
(* (part_000:78-89).  The workers and the three commands, interleaved;     *)
(* the connections have delivered messages that changed nothing (unknown   *)
(* commands): the first delivers MaxCmds - 1 commands more, the others one *)
(* command each.                                                           *)
(***************************************************************************)
NumConns == 2

InitMulti ==
    /\ \E seed \in Seeds, s0 \in InitSoups, start \in InitStarts :
          LET a == initializeSimulation(NewAppState, seed, s0, start)
          IN  /\ InstallApp([a EXCEPT !.ipWg = NumIPs])
              /\ workers = [id \in DOMAIN a.population |-> [sel |-> 1, stp |-> 0]]
    /\ cosmic = [pc |-> "check", flips |-> 0]
    /\ conn = [c \in 1..NumConns |->
                  [IdleConn EXCEPT !.n = IF c = 1 THEN 1 ELSE MaxCmds - 1,
                                   !.log = "Unknown"]]
    /\ panicked = FALSE
    /\ phase = "running"
    /\ snapFile = NoFile
    /\ snapSrc = NoFile
    /\ snapFile2 = NoFile
    /\ savePc = "idle"
    /\ snapPrev = NoFile
    /\ snapErr = ""
    /\ vis = IdleVis
    /\ hub = NoHub
    /\ singleStep = 0
    /\ vmIn = NoFile
    /\ vmOut = NoFile

NextMulti ==
    \/ \E id \in DOMAIN workers : WorkerExit(id)
    \/ \E id \in DOMAIN workers : WorkerDefault(id)
    \/ \E id \in DOMAIN workers : WorkerStep(id)
    \/ \E c \in DOMAIN conn : RecvCommand(c)
    \/ \E c \in DOMAIN conn : PauseCAS(c)
    \/ \E c \in DOMAIN conn : PauseClose(c)
    \/ \E c \in DOMAIN conn : PauseWait(c)
    \/ \E c \in DOMAIN conn : PauseVis(c)
    \/ \E c \in DOMAIN conn : ResumeCAS(c)
    \/ \E c \in DOMAIN conn : ResumeChan(c)
    \/ \E c \in DOMAIN conn : LaunchIPs(c)
    \/ \E c \in DOMAIN conn : StepCheck(c)
    \/ \E c \in DOMAIN conn : StepRange(c)
    \/ \E c \in DOMAIN conn : StepVis(c)

SpecMulti == InitMulti /\ [][NextMulti]_vars

(***************************************************************************)
(* The flag-polling supervisor (SpecPoll): state.go:139-211.  The workers  *)
(* are started once and poll the flags paused and singleStep; Pause,       *)
(* Resume and Step only store to the flags.  Every load and store of a     *)
(* flag is a step of its own.  The vm package of this supervisor is not in *)
(* the sources: of p.Step() the model keeps the count of the calls, in the *)
(* Steps of the IP.  A worker steps its IP while Steps < MaxPollSteps.      *)
(***************************************************************************)
MaxPollSteps == 2

InitPoll ==
    /\ \E seed \in Seeds, s0 \in InitSoups, start \in InitStarts :
          InstallApp(initializeSimulation(NewAppState, seed, s0, start))
    /\ workers = [id \in IPIds |-> [pc |-> "wait"]]
    /\ cosmic = [pc |-> "check", flips |-> 0]
    /\ conn = [c \in Conns |-> IdleConn]
    /\ panicked = FALSE
    /\ phase = "running"
    /\ snapFile = NoFile
    /\ snapSrc = NoFile
    /\ snapFile2 = NoFile
    /\ savePc = "idle"
    /\ snapPrev = NoFile
    /\ snapErr = ""
    /\ vis = IdleVis
    /\ hub = NoHub
    /\ singleStep = 0
    /\ vmIn = NoFile
    /\ vmOut = NoFile

\* what the polling supervisor leaves alone
PollFrame == <<soup, nextIPID, randSeed, generation, ipCount, cosmicRayRate,
               Use32BitAddressing, UseRelativeAddressing, ipStopChan, ipWg,
               viewStartIndex, viewEndIndex, visRequestChan, cosmic, panicked,
               phase, snapFile, snapSrc, snapFile2, savePc, snapPrev, snapErr,
               vmIn, vmOut, vis, hub>>

\* every worker is in its wait loop
AllWaiting == \A id \in DOMAIN workers : workers[id].pc \in {"wait", "wait2"}

\* state.go:143 the load of s.paused in the condition of the wait loop
PollWait(id) ==
    /\ workers[id].pc = "wait"
    /\ workers' = [workers EXCEPT ![id].pc = IF paused = 1 THEN "wait2" ELSE "step"]
    /\ UNCHANGED <<PollFrame, population, paused, singleStep, conn>>

\* state.go:143-145 the load of s.singleStep in the condition: the worker
\* sleeps and tests again, or leaves the loop
PollWait2(id) ==
    /\ workers[id].pc = "wait2"
    /\ workers' = [workers EXCEPT ![id].pc = IF singleStep = 0 THEN "wait" ELSE "step"]
    /\ UNCHANGED <<PollFrame, population, paused, singleStep, conn>>

\* state.go:147 p.Step()
PollStep(id) ==
    /\ workers[id].pc = "step"
    /\ population[id].Steps < MaxPollSteps
    /\ population' = [population EXCEPT ![id].Steps = @ + 1]
    /\ workers' = [workers EXCEPT ![id].pc = "check"]
    /\ UNCHANGED <<PollFrame, paused, singleStep, conn>>

\* state.go:150 the load of s.singleStep after the Step
PollCheck(id) ==
    /\ workers[id].pc = "check"
    /\ workers' = [workers EXCEPT ![id].pc = IF singleStep = 1 THEN "setPaused" ELSE "wait"]
    /\ UNCHANGED <<PollFrame, population, paused, singleStep, conn>>

\* state.go:151 atomic.StoreInt32(&s.paused, 1)
PollSetPaused(id) ==
    /\ workers[id].pc = "setPaused"
    /\ paused' = 1
    /\ workers' = [workers EXCEPT ![id].pc = "clear"]
    /\ UNCHANGED <<PollFrame, population, singleStep, conn>>

\* state.go:152 atomic.StoreInt32(&s.singleStep, 0)
PollClear(id) ==
    /\ workers[id].pc = "clear"
    /\ singleStep' = 0
    /\ workers' = [workers EXCEPT ![id].pc = "wait"]
    /\ UNCHANGED <<PollFrame, population, paused, conn>>

\* part_000:78-89 {type: "command"}: readPump calls Pause, Resume or Step
PollRecv(c) ==
    /\ CanRecv(c)
    /\ \E command \in {"pause", "resume", "step"} :
          conn' = [conn EXCEPT ![c].n = @ + 1,
                               ![c].pc = command,
                               ![c].log = command,
                               ![c].base = <<>>]
    /\ UNCHANGED <<PollFrame, population, paused, singleStep, workers>>

\* state.go:196-198 Pause
PollPause(c) ==
    /\ conn[c].pc = "pause"
    /\ paused' = 1
    /\ conn' = [conn EXCEPT ![c].pc = "idle"]
    /\ UNCHANGED <<PollFrame, population, singleStep, workers>>

\* state.go:201-203 Resume
PollResume(c) ==
    /\ conn[c].pc = "resume"
    /\ paused' = 0
    /\ conn' = [conn EXCEPT ![c].pc = "idle"]
    /\ UNCHANGED <<PollFrame, population, singleStep, workers>>

\* state.go:206-207 Step: the load of s.paused.  base keeps the Steps of
\* every IP when the command is taken with every worker in its wait loop and
\* singleStep = 0, that is, while the simulation is at rest.
PollStepCheck(c) ==
    /\ conn[c].pc = "step"
    /\ conn' = IF paused = 1
               THEN [conn EXCEPT ![c].pc = "StepSingle",
                                 ![c].base = IF AllWaiting /\ singleStep = 0
                                             THEN [id \in DOMAIN population |->
                                                      population[id].Steps]
                                             ELSE <<>>]
               ELSE [conn EXCEPT ![c].pc = "idle"]
    /\ UNCHANGED <<PollFrame, population, paused, singleStep, workers>>

\* state.go:208 atomic.StoreInt32(&s.singleStep, 1)
PollStepSingle(c) ==
    /\ conn[c].pc = "StepSingle"
    /\ singleStep' = 1
    /\ conn' = [conn EXCEPT ![c].pc = "StepPaused"]
    /\ UNCHANGED <<PollFrame, population, paused, workers>>

\* state.go:209 atomic.StoreInt32(&s.paused, 0)
PollStepPaused(c) ==
    /\ conn[c].pc = "StepPaused"
    /\ paused' = 0
    /\ conn' = [conn EXCEPT ![c].pc = "idle"]
    /\ UNCHANGED <<PollFrame, population, singleStep, workers>>

NextPoll ==
    \/ \E id \in DOMAIN workers : PollWait(id)
    \/ \E id \in DOMAIN workers : PollWait2(id)
    \/ \E id \in DOMAIN workers : PollStep(id)
    \/ \E id \in DOMAIN workers : PollCheck(id)
    \/ \E id \in DOMAIN workers : PollSetPaused(id)
    \/ \E id \in DOMAIN workers : PollClear(id)
    \/ \E c \in DOMAIN conn : PollRecv(c)
    \/ \E c \in DOMAIN conn : PollPause(c)
    \/ \E c \in DOMAIN conn : PollResume(c)
    \/ \E c \in DOMAIN conn : PollStepCheck(c)
    \/ \E c \in DOMAIN conn : PollStepSingle(c)
    \/ \E c \in DOMAIN conn : PollStepPaused(c)

SpecPoll == InitPoll /\ [][NextPoll]_vars

(***************************************************************************)
(* IP.Step alone: one IP on a soup of N cells, every rule byte, operand    *)
(* cells drawn from OperandVals, every pair of addressing flags and every  *)
(* cursor SetIPPtr can leave (x inside (-DIM_X, DIM_X), y below 0 or past  *)
(* DIM_Y).                                                                 *)
(***************************************************************************)
OperandVals == {-1, 0, 17}
VMStartX == (1 - DIM_X)..(DIM_X - 1)
VMStartY == -1..DIM_Y

\* the soup with the rule under the cursor and operands a, b around it
VMSoup(rule, a, b, at) ==
    [i \in 0..(N - 1) |->
        IF i = at THEN rule
        ELSE CASE i % 3 = 0 -> a [] i % 3 = 1 -> b [] OTHER -> Xor8(a, b)]

InitVM ==
    /\ \E x \in VMStartX, y \in VMStartY, u32 \in BOOLEAN, rel \in BOOLEAN,
          rule \in Int8, a \in OperandVals, b \in OperandVals :
          LET ip == NewIP(1, [i \in 0..(N - 1) |-> 0], x, y, DIM_X, u32, rel)
              s0 == VMSoup(rule, a, b, to1D(ip, x, y))
          IN  /\ InstallApp([NewAppState EXCEPT !.soup = s0,
                                                !.population = (1 :> ip),
                                                !.ipCount = 1,
                                                !.nextIPID = 1])
              /\ vmIn = [ip |-> ip, soup |-> s0]
    /\ vmOut = NoFile
    /\ workers = <<>>
    /\ cosmic = [pc |-> "check", flips |-> 0]
    /\ conn = <<>>
    /\ panicked = FALSE
    /\ phase = "vm"
    /\ snapFile = NoFile
    /\ snapSrc = NoFile
    /\ snapFile2 = NoFile
    /\ savePc = "idle"
    /\ snapPrev = NoFile
    /\ snapErr = ""
    /\ vis = IdleVis
    /\ hub = NoHub
    /\ singleStep = 0

\* one call of ip.Step() on the IP
VMStep ==
    /\ phase = "vm"
    /\ ~panicked
    /\ population[1].Steps = 0
    /\ \E direction \in Directions :
          \E r \in {IPStep(population[1], soup, direction)} :
              /\ population' = [population EXCEPT ![1] = r.ip]
              /\ soup' = r.soup
              /\ panicked' = r.panics
              /\ vmOut' = [acc |-> r.acc, wrote |-> r.wrote, aluOp |-> r.aluOp,
                           srcType |-> r.srcType, destType |-> r.destType,
                           jumpTaken |-> r.jumpTaken, jumpIndex |-> r.jumpIndex,
                           jump |-> r.jump, base |-> r.base,
                           direction |-> direction]
    /\ UNCHANGED <<nextIPID, randSeed, generation, ipCount, cosmicRayRate,
                   paused, Use32BitAddressing, UseRelativeAddressing,
                   ipStopChan, ipWg, viewStartIndex, viewEndIndex,
                   visRequestChan, workers, cosmic, conn, phase, snapFile,
                   snapSrc, snapFile2, savePc, snapPrev, snapErr, vmIn, vis, hub,
                   singleStep>>

NextVM == VMStep

SpecVM == InitVM /\ [][NextVM]_vars

(***************************************************************************)
(* wrap and to1D alone (SpecWrap): the arguments are drawn by the initial  *)
(* state and one call is made.  wrap works on int32 (vm.go:71); wrapW is   *)
(* the same expression on integers of WrapBits bits, so that the sum       *)
(* val%max + max can leave the integer range as it can in the code.        *)
(***************************************************************************)
WrapBits == 8

\* two's complement truncation to WrapBits bits
IntW(v) == ((v + 2 ^ (WrapBits - 1)) % (2 ^ WrapBits)) - 2 ^ (WrapBits - 1)

\* vm.go:71-73 wrap on integers of WrapBits bits
wrapW(val, max) == IntW(GoRem(IntW(GoRem(val, max) + max), max))

\* every value of the integer type
WrapVals == (0 - 2 ^ (WrapBits - 1))..(2 ^ (WrapBits - 1) - 1)

\* the moduli for which val%max + max stays inside the integer type
WrapMods == 1..(2 ^ (WrapBits - 2))

\* rows passed to to1D
WrapRows == {-1, 0, DIM_Y}

InitWrap ==
    /\ InstallApp(NewAppState)
    /\ \E v \in WrapVals, M \in WrapMods, y \in WrapRows :
          vmIn = [v |-> v, M |-> M, y |-> y]
    /\ vmOut = NoFile
    /\ workers = <<>>
    /\ cosmic = [pc |-> "check", flips |-> 0]
    /\ conn = <<>>
    /\ panicked = FALSE
    /\ phase = "wrap"
    /\ snapFile = NoFile
    /\ snapSrc = NoFile
    /\ snapFile2 = NoFile
    /\ savePc = "idle"
    /\ snapPrev = NoFile
    /\ snapErr = ""
    /\ vis = IdleVis
    /\ hub = NoHub
    /\ singleStep = 0

\* one call of ip.wrap(v, M) and one of ip.to1D(v, y)
WrapCall ==
    /\ phase = "wrap"
    /\ vmOut = NoFile
    /\ vmOut' = [w |-> wrap(vmIn.v, vmIn.M),
                 wW |-> wrapW(vmIn.v, vmIn.M),
                 i |-> to1D(NewIP(1, soup, 0, 0, DIM_X, FALSE, TRUE),
                            vmIn.v, vmIn.y)]
    /\ UNCHANGED <<appVars, workers, cosmic, conn, panicked, phase, snapFile,
                   snapSrc, snapFile2, savePc, snapPrev, snapErr, vmIn, vis, hub,
                   singleStep>>

NextWrap == WrapCall

SpecWrap == InitWrap /\ [][NextWrap]_vars

(***************************************************************************)
(* resolveAddress alone (SpecResolve): the base, the offset and the two    *)
(* addressing flags are drawn by the initial state and one call is made.   *)
(* An 8-bit offset is int32(fetch8()), any signed byte; a 32-bit offset is *)
(* drawn from Offsets32.                                                   *)
(***************************************************************************)
Offsets32 == {-65537, -65536, -1, 0, 1, 65536, 131073}

InitResolve ==
    /\ InstallApp(NewAppState)
    /\ \E bx \in VMStartX, by \in VMStartY, u32 \in BOOLEAN, rel \in BOOLEAN :
          \E o \in (IF u32 THEN Offsets32 ELSE Int8) :
             vmIn = [bx |-> bx, by |-> by, o |-> o,
                     ip |-> NewIP(1, soup, bx, by, DIM_X, u32, rel)]
    /\ vmOut = NoFile
    /\ workers = <<>>
    /\ cosmic = [pc |-> "check", flips |-> 0]
    /\ conn = <<>>
    /\ panicked = FALSE
    /\ phase = "resolve"
    /\ snapFile = NoFile
    /\ snapSrc = NoFile
    /\ snapFile2 = NoFile
    /\ savePc = "idle"
    /\ snapPrev = NoFile
    /\ snapErr = ""
    /\ vis = IdleVis
    /\ hub = NoHub
    /\ singleStep = 0

\* one call of resolveAddress(bx, by, o)
ResolveCall ==
    /\ phase = "resolve"
    /\ vmOut = NoFile
    /\ vmOut' = [xy |-> resolveXY(vmIn.ip, vmIn.bx, vmIn.by, vmIn.o),
                 index |-> resolveAddress(vmIn.ip, vmIn.bx, vmIn.by, vmIn.o)]
    /\ UNCHANGED <<appVars, workers, cosmic, conn, panicked, phase, snapFile,
                   snapSrc, snapFile2, savePc, snapPrev, snapErr, vmIn, vis, hub,
                   singleStep>>

NextResolve == ResolveCall

SpecResolve == InitResolve /\ [][NextResolve]_vars

(***************************************************************************)
(* runCosmicRaySimulator alone (SpecCosmic): the mutator goroutine on a    *)
(* supervisor with no worker and no connection, for each value of the      *)
(* rate cell and of the paused flag it may find when it starts.            *)
(***************************************************************************)
\* the rates, in thousandths: 0, the default of NewAppState, and 1
Rates == {0, DefaultRate, 1000}

CosmicSoups == {SoupOf(<<k, 0, 5, 19, -31, -64>>) : k \in 98..105}

InitCosmic ==
    /\ \E s0 \in CosmicSoups, rate \in Rates, p \in {0, 1} :
          InstallApp([SetCosmicRayRate(NewAppState, rate)
                         EXCEPT !.soup = s0, !.paused = p])
    /\ workers = <<>>
    /\ cosmic = [pc |-> "check", flips |-> 0]
    /\ conn = <<>>
    /\ panicked = FALSE
    /\ phase = "running"
    /\ snapFile = NoFile
    /\ snapSrc = NoFile
    /\ snapFile2 = NoFile
    /\ savePc = "idle"
    /\ snapPrev = NoFile
    /\ snapErr = ""
    /\ vis = IdleVis
    /\ hub = NoHub
    /\ singleStep = 0
    /\ vmIn = NoFile
    /\ vmOut = NoFile

NextCosmic ==
    \/ CosmicCheck
    \/ CosmicFlip
    \/ CosmicSkip

SpecCosmic == InitCosmic /\ [][NextCosmic]_vars

(***************************************************************************)
(* Hub.Run alone (SpecHub): part_000:179-202.  The producers of frames and *)
(* statistics send numbered messages to hub.Broadcast, the hub copies each *)
(* to the send channel of every registered client, and the writePump of a  *)
(* client takes messages from its send channel and writes them to the      *)
(* connection.  The channels have 256 places in the code (part_000:169,    *)
(* 211), BroadcastCap and SendCap in the model.  The hub of part_000 and   *)
(* websocket.go drops a message for a client whose send channel is full;   *)
(* the hub of part_001 closes the channel and deletes the client           *)
(* (closeOnFull).  The events on h.Register and h.Unregister are inputs of *)
(* Hub.Run: a client is registered once, when handleWebSocket has made it, *)
(* and sent to h.Unregister at most MaxUnregs times.  A close of a closed   *)
(* channel and a send on a closed channel panic.                           *)
(***************************************************************************)
NumClients == 2
BroadcastCap == 2
SendCap == 2
MaxMsgs == 4
MaxUnregs == 2

HubClients == 1..NumClients

\* part_000:167-176 NewHub, and the clients not yet connected
NewHub ==
    [clients |-> {},
     broadcast |-> <<>>,
     send |-> [c \in HubClients |-> <<>>],
     closed |-> [c \in HubClients |-> FALSE],
     known |-> {},
     got |-> [c \in HubClients |-> <<>>],
     dropped |-> [c \in HubClients |-> {}],
     next |-> 1,
     unregs |-> [c \in HubClients |-> 0],
     closeOnFull |-> FALSE]

InitHub ==
    /\ InstallApp(NewAppState)
    /\ workers = <<>>
    /\ cosmic = [pc |-> "check", flips |-> 0]
    /\ conn = <<>>
    /\ panicked = FALSE
    /\ phase = "hub"
    /\ snapFile = NoFile
    /\ snapSrc = NoFile
    /\ snapFile2 = NoFile
    /\ savePc = "idle"
    /\ snapPrev = NoFile
    /\ snapErr = ""
    /\ vmIn = NoFile
    /\ vmOut = NoFile
    /\ vis = IdleVis
    /\ hub \in {NewHub, [NewHub EXCEPT !.closeOnFull = TRUE]}
    /\ singleStep = 0

HubFrame == <<appVars, workers, cosmic, conn, panicked, phase, snapFile,
              snapSrc, snapFile2, savePc, snapPrev, snapErr, vmIn, vmOut, vis,
                   singleStep>>

HubQuiet == <<appVars, workers, cosmic, conn, phase, snapFile, snapSrc,
              snapFile2, savePc, snapPrev, snapErr, vmIn, vmOut, vis,
                   singleStep>>

\* part_000:211-212, 182-183 handleWebSocket makes the client and the hub
\* takes it from h.Register
HubRegister(c) ==
    /\ phase = "hub"
    /\ c \notin hub.known
    /\ hub' = [hub EXCEPT !.clients = @ \cup {c}, !.known = @ \cup {c}]
    /\ UNCHANGED HubFrame

\* part_000:184-188 the hub takes the client from h.Unregister: if it is in
\* h.clients it is deleted and its send channel closed.  The mutant does so
\* without the test.
HubUnregister_NoTest(c) ==
    /\ phase = "hub"
    /\ ~panicked
    /\ c \in hub.known
    /\ hub.unregs[c] < MaxUnregs
    /\ hub' = [hub EXCEPT !.clients = @ \ {c}, !.closed[c] = TRUE,
                          !.unregs[c] = @ + 1]
    /\ panicked' = hub.closed[c]
    /\ UNCHANGED HubQuiet

HubUnregister(c) ==
    /\ phase = "hub"
    /\ ~panicked
    /\ c \in hub.known
    /\ hub.unregs[c] < MaxUnregs
    /\ IF c \in hub.clients
       THEN /\ hub' = [hub EXCEPT !.clients = @ \ {c}, !.closed[c] = TRUE,
                                  !.unregs[c] = @ + 1]
            /\ panicked' = hub.closed[c]
       ELSE /\ hub' = [hub EXCEPT !.unregs[c] = @ + 1]
            /\ panicked' = panicked
    /\ UNCHANGED HubQuiet

\* state.go:653, 689, 759 hub.Broadcast <- message: the send blocks while the
\* channel is full
HubEmit ==
    /\ phase = "hub"
    /\ hub.next <= MaxMsgs
    /\ Len(hub.broadcast) < BroadcastCap
    /\ hub' = [hub EXCEPT !.broadcast = Append(@, hub.next), !.next = @ + 1]
    /\ UNCHANGED HubFrame

\* part_000:192-200 what the select of the hub does with message on the send
\* channel of a client: sent if there is room, else the default case
HubSend(send, message) ==
    IF Len(send) < SendCap THEN Append(send, message) ELSE send

\* part_000:189-200, part_001:149-160 case message := <-h.Broadcast: the
\* range over h.clients.  A client whose channel is full keeps its channel
\* and its place, or with closeOnFull loses both.
HubBroadcast ==
    /\ hub # NoHub
    /\ ~panicked
    /\ hub.broadcast # <<>>
    /\ LET message == Head(hub.broadcast)
           full == {c \in hub.clients : ~hub.closed[c]
                                        /\ HubSend(hub.send[c], message) = hub.send[c]}
           after == [c \in HubClients |->
                        IF c \in hub.clients /\ ~hub.closed[c]
                        THEN HubSend(hub.send[c], message)
                        ELSE hub.send[c]]
       IN  /\ hub' = [hub EXCEPT
                         !.broadcast = Tail(@),
                         !.send = after,
                         !.clients = IF hub.closeOnFull THEN @ \ full ELSE @,
                         !.closed = [c \in HubClients |->
                                        hub.closed[c]
                                        \/ (hub.closeOnFull /\ c \in full)],
                         !.dropped =
                             [c \in HubClients |->
                                 IF c \in hub.clients
                                 THEN hub.dropped[c] \cup
                                      (({message} \cup
                                        {hub.send[c][i] : i \in DOMAIN hub.send[c]})
                                       \ {after[c][i] : i \in DOMAIN after[c]})
                                 ELSE hub.dropped[c]]]
           /\ panicked' = \E c \in hub.clients : hub.closed[c]
    /\ UNCHANGED HubQuiet

\* part_000:120-141 writePump takes a message from c.send and writes it to
\* the connection
WritePump(c) ==
    /\ phase = "hub"
    /\ hub.send[c] # <<>>
    /\ hub' = [hub EXCEPT !.send[c] = Tail(@),
                          !.got[c] = Append(@, Head(hub.send[c]))]
    /\ UNCHANGED HubFrame

NextHub ==
    \/ \E c \in HubClients : HubRegister(c)
    \/ \E c \in HubClients : HubUnregister(c)
    \/ HubEmit
    \/ HubBroadcast
    \/ \E c \in HubClients : WritePump(c)

SpecHub == InitHub /\ [][NextHub]_vars

(***************************************************************************)
(* RunVisualization with sendFrame in steps (SpecFrame): state.go:628-706. *)
(* The supervisor has its population but no worker running; the soup is    *)
(* written by the cosmic-ray goroutine while frames are sampled, the       *)
(* control connection sends set_view_start_index, and the hub passes the   *)
(* messages to one registered client.  currentIndices is allocated once    *)
(* (state.go:632) and hub.Broadcast carries the slice, not a copy: a frame *)
(* message in a channel is a reference to the buffer of vis, and its bytes *)
(* are read when writePump writes it to the connection.                    *)
(***************************************************************************)
MaxFrames == 2

\* the values of s.viewStartIndex when RunVisualization starts: 0 of
\* NewAppState, or what set_view_start_index stored before
FrameStarts == {0, N - 1, N + 1}

\* the start cells of the IPs (state.go:468-469): both in the first column,
\* one in each of the outer columns, both in the last column
FrameIPStarts ==
    {[i \in IPIds |-> <<0, 0>>],
     [i \in IPIds |-> IF i = 1 THEN <<0, 0>> ELSE <<DIM_X - 1, DIM_Y - 1>>],
     [i \in IPIds |-> <<DIM_X - 1, 0>>]}

\* state.go:637 int(math.Sqrt(float64(StatsAndVisSize)))
viewDim == CHOOSE r \in 0..StatsAndVisSize :
               r * r <= StatsAndVisSize /\ (r + 1) * (r + 1) > StatsAndVisSize

\* state.go:643-647 the soup index of column x of row y of the window, with
\* "the row is not wrapped" as its mutant
sourceIndex_NoRowWrap(startX, startY, y, x) ==
    (startY + y) * DIM_X + GoRem(startX + x, DIM_X)

sourceIndex(startX, startY, y, x) ==
    GoRem(startY + y, DIM_Y) * DIM_X + GoRem(startX + x, DIM_X)

\* state.go:632 and the locals of sendFrame; frames counts the calls
NewVis ==
    [pc |-> "select", start |-> 0, startX |-> 0, startY |-> 0, y |-> 0,
     x |-> 0, destIndex |-> 0,
     currentIndices |-> [i \in 0..(StatsAndVisSize - 1) |-> 0],
     frames |-> 0]

InitFrame ==
    /\ \E seed \in Seeds, s0 \in InitSoups, start \in FrameIPStarts,
          index \in FrameStarts :
          LET a == initializeSimulation(NewAppState, seed, s0, start)
          IN  InstallApp([a EXCEPT !.viewStartIndex = index,
                                   !.viewEndIndex = index + StatsAndVisSize])
    /\ workers = <<>>
    /\ cosmic = [pc |-> "check", flips |-> 0]
    /\ conn = [c \in Conns |-> IdleConn]
    /\ panicked = FALSE
    /\ phase = "running"
    /\ snapFile = NoFile
    /\ snapSrc = NoFile
    /\ snapFile2 = NoFile
    /\ savePc = "idle"
    /\ snapPrev = NoFile
    /\ snapErr = ""
    /\ vmIn = NoFile
    /\ vmOut = NoFile
    /\ vis = NewVis
    /\ hub = [NewHub EXCEPT !.clients = {1}, !.known = {1}]
    /\ singleStep = 0

\* state.go:636-640 sendFrame begins: the start index is read once
BeginFrame ==
    [vis EXCEPT !.pc = "copy",
                !.start = viewStartIndex,
                !.startX = GoRem(viewStartIndex, DIM_X),
                !.startY = GoDiv(viewStartIndex, DIM_X),
                !.y = 0, !.x = 0, !.destIndex = 0,
                !.frames = @ + 1]

\* state.go:698-700 the ticker case with s.paused = 0
FrameTick ==
    /\ Running
    /\ hub # NoHub
    /\ vis.pc = "select"
    /\ vis.frames < MaxFrames
    /\ paused = 0
    /\ vis' = BeginFrame
    /\ UNCHANGED <<appVars, workers, cosmic, conn, panicked, phase, snapFile,
                   snapSrc, snapFile2, savePc, snapPrev, snapErr, vmIn, vmOut,
                   hub, singleStep>>

\* state.go:702-703 the request case
FrameRequest ==
    /\ Running
    /\ hub # NoHub
    /\ vis.pc = "select"
    /\ vis.frames < MaxFrames
    /\ visRequestChan > 0
    /\ visRequestChan' = visRequestChan - 1
    /\ vis' = BeginFrame
    /\ UNCHANGED <<soup, population, nextIPID, randSeed, generation, ipCount,
                   cosmicRayRate, paused, Use32BitAddressing,
                   UseRelativeAddressing, ipStopChan, ipWg, viewStartIndex,
                   viewEndIndex, workers, cosmic, conn, panicked, phase,
                   snapFile, snapSrc, snapFile2, savePc, snapPrev, snapErr,
                   vmIn, vmOut, hub, singleStep>>

\* state.go:642-653 one pass of the inner loop: the cell is copied if both
\* indices are in range, and the loops advance
FrameCopy ==
    /\ Running
    /\ vis.pc = "copy"
    /\ LET from == sourceIndex(vis.startX, vis.startY, vis.y, vis.x)
           copied == from < Cardinality(DOMAIN soup)
                     /\ vis.destIndex < Cardinality(DOMAIN vis.currentIndices)
           rowDone == vis.x + 1 >= viewDim
       IN  vis' = [vis EXCEPT
                      !.currentIndices =
                          IF copied
                          THEN [@ EXCEPT ![vis.destIndex] = U8(soup[from])]
                          ELSE @,
                      !.destIndex = IF copied THEN @ + 1 ELSE @,
                      !.x = IF rowDone THEN 0 ELSE @ + 1,
                      !.y = IF rowDone THEN @ + 1 ELSE @,
                      !.pc = IF rowDone /\ vis.y + 1 >= viewDim
                             THEN "send" ELSE "copy"]
    /\ UNCHANGED <<appVars, workers, cosmic, conn, panicked, phase, snapFile,
                   snapSrc, snapFile2, savePc, snapPrev, snapErr, vmIn, vmOut,
                   hub, singleStep>>

\* the frame message: the slice currentIndices.  sampled is what the buffer
\* held when the message was sent, n the call of sendFrame that sent it.
FrameMessage ==
    [type |-> "frame", n |-> vis.frames, sampled |-> vis.currentIndices]

\* state.go:654 hub.Broadcast <- currentIndices, which blocks while the
\* channel is full
FrameSend ==
    /\ Running
    /\ vis.pc = "send"
    /\ Len(hub.broadcast) < BroadcastCap
    /\ hub' = [hub EXCEPT !.broadcast = Append(@, FrameMessage)]
    /\ vis' = [vis EXCEPT !.pc = "locations"]
    /\ UNCHANGED <<appVars, workers, cosmic, conn, panicked, phase, snapFile,
                   snapSrc, snapFile2, savePc, snapPrev, snapErr, vmIn, vmOut,
                   singleStep>>

\* state.go:670-673 the test of the Range: the IP is in the window
InWindow(ip) ==
    /\ GoRem(ip.X - vis.startX + DIM_X, DIM_X) < viewDim
    /\ GoRem(ip.Y - vis.startY + DIM_Y, DIM_Y) < viewDim

\* state.go:667-677 the list the Range builds when it visits the keys in
\* the given order
Locations(order) ==
    LET RECURSIVE Build(_)
        Build(k) ==
            IF k = 0 THEN <<>>
            ELSE IF InWindow(population[order[k]])
                 THEN Append(Build(k - 1), <<population[order[k]].X,
                                             population[order[k]].Y>>)
                 ELSE Build(k - 1)
    IN  Build(Len(order))

\* state.go:656-693 the IP locations: a message is sent only if the list
\* is not empty
FrameLocations ==
    /\ Running
    /\ vis.pc = "locations"
    /\ \E order \in RangeOrders(DOMAIN population) :
          LET locations == Locations(order)
          IN  IF Len(locations) > 0
              THEN /\ Len(hub.broadcast) < BroadcastCap
                   /\ hub' = [hub EXCEPT !.broadcast =
                                 Append(@, [type |-> "ip_locations",
                                            n |-> vis.frames,
                                            locations |-> locations])]
              ELSE hub' = hub
    /\ vis' = [vis EXCEPT !.pc = "select"]
    /\ UNCHANGED <<appVars, workers, cosmic, conn, panicked, phase, snapFile,
                   snapSrc, snapFile2, savePc, snapPrev, snapErr, vmIn, vmOut,
                   singleStep>>

\* part_000:120-141 writePump takes a message from c.send and writes it to
\* the connection: the bytes of a frame are those of the buffer now
WriteFrame(c) ==
    /\ hub # NoHub
    /\ vis # IdleVis
    /\ hub.send[c] # <<>>
    /\ LET message == Head(hub.send[c])
           written == IF message.type = "frame"
                      THEN [type |-> "frame", n |-> message.n,
                            sampled |-> message.sampled,
                            bytes |-> vis.currentIndices]
                      ELSE message
       IN  hub' = [hub EXCEPT !.send[c] = Tail(@),
                             !.got[c] = Append(@, written)]
    /\ UNCHANGED HubFrame

NextFrame ==
    \/ FrameTick
    \/ FrameRequest
    \/ FrameCopy
    \/ FrameSend
    \/ FrameLocations
    \/ HubBroadcast
    \/ \E c \in HubClients : WriteFrame(c)
    \/ \E c \in DOMAIN conn : SetViewStartIndex(c)
    \/ CosmicCheck
    \/ CosmicFlip
    \/ CosmicSkip

SpecFrame == InitFrame /\ [][NextFrame]_vars

(***************************************************************************)
(* saveSnapshot and loadSnapshot alone (SpecSnap): a supervisor at rest,   *)
(* fresh from NewAppState or initialized, the snapshot path on disk, and   *)
(* calls of the two functions.  saveSnapshot is taken in the steps the     *)
(* file system sees: os.Create truncates the path, Encode then writes the  *)
(* record.  loadSnapshot reads the snapshot path or another file.          *)
(***************************************************************************)
\* the path right after os.Create: a file of zero bytes
EmptyFile == [empty |-> TRUE]

\* a gob stream that ends before the record does
PartialFile == [partial |-> TRUE]

\* the file decodes to a SimulationState
IsSnapshot(file) == "Soup" \in DOMAIN file

\* a snapshot file with a soup of len cells and the IPs with the given ids
SnapshotOf(len, ids) ==
    [Generation |-> 3,
     Soup |-> [i \in 0..(len - 1) |-> S8(40 * i + 7)],
     IPs |-> [k \in DOMAIN ids |->
                 [ID |-> ids[k], X |-> k % DIM_X, Y |-> k % DIM_Y,
                  Steps |-> 5, CurrentInstruction |-> 0]],
     NextIPID |-> 0,
     RandSeed |-> 23]

\* the files a load may be pointed at: snapshots of this soup size, of a
\* smaller and of a larger one, a truncated file, and a path with no file
SnapshotInputs ==
    {SnapshotOf(N, <<7, 3>>), SnapshotOf(N, <<2>>), SnapshotOf(N - 1, <<7>>),
     SnapshotOf(N + 1, <<7, 3>>), PartialFile, NoFile}

\* state.go:634-660 the addressing flags after the set commands
WithFlags(a, u32, rel) ==
    [a EXCEPT !.Use32BitAddressing = u32,
              !.UseRelativeAddressing = rel,
              !.population =
                  [id \in DOMAIN a.population |->
                      [a.population[id] EXCEPT !.Use32BitAddressing = u32,
                                               !.UseRelativeAddressing = rel]]]

InitSnap ==
    /\ \E started \in BOOLEAN, u32 \in BOOLEAN, rel \in BOOLEAN,
          seed \in Seeds, s0 \in InitSoups, start \in InitStarts :
          InstallApp(IF started
                     THEN WithFlags(initializeSimulation(NewAppState, seed,
                                                         s0, start), u32, rel)
                     ELSE NewAppState)
    /\ workers = <<>>
    /\ cosmic = [pc |-> "check", flips |-> 0]
    /\ conn = <<>>
    /\ panicked = FALSE
    /\ phase = "snap"
    /\ snapFile \in {NoFile, SnapshotOf(N, <<7, 3>>)}
    /\ snapSrc = NoFile
    /\ snapFile2 = NoFile
    /\ savePc = "idle"
    /\ snapPrev = snapFile
    /\ snapErr = ""
    /\ vis = IdleVis
    /\ hub = NoHub
    /\ singleStep = 0
    /\ vmIn = NoFile
    /\ vmOut = NoFile

\* state.go:444-447 os.Create fails: the error is returned, nothing written
SaveCreateFails ==
    /\ phase = "snap"
    /\ savePc = "idle"
    /\ snapErr' = "failed to create snapshot file"
    /\ snapPrev' = snapFile
    /\ UNCHANGED <<appVars, workers, cosmic, conn, panicked, phase, snapFile,
                   snapSrc, snapFile2, savePc, vmIn, vmOut, vis, hub,
                   singleStep>>

\* state.go:444 os.Create(filename): the path now holds an empty file
SaveCreate ==
    /\ phase = "snap"
    /\ savePc = "idle"
    /\ savePc' = "created"
    /\ snapPrev' = snapFile
    /\ snapFile' = EmptyFile
    /\ snapErr' = ""
    /\ UNCHANGED <<appVars, workers, cosmic, conn, panicked, phase,
                   snapSrc, snapFile2, vmIn, vmOut, vis, hub, singleStep>>

\* state.go:450-454 Encode writes the record and saveSnapshot returns nil
SaveEncode ==
    /\ phase = "snap"
    /\ savePc = "created"
    /\ \E order \in RangeOrders(DOMAIN population) :
          snapFile' = saveSnapshot(App, order)
    /\ savePc' = "idle"
    /\ snapErr' = "nil"
    /\ UNCHANGED <<appVars, workers, cosmic, conn, panicked, phase,
                   snapSrc, snapFile2, snapPrev, vmIn, vmOut, vis, hub,
                   singleStep>>

\* state.go:451-453 Encode fails (the disk is full, the device is gone): the
\* error is returned and the path keeps what was written so far
SaveEncodeFails ==
    /\ phase = "snap"
    /\ savePc = "created"
    /\ snapFile' \in {EmptyFile, PartialFile}
    /\ savePc' = "idle"
    /\ snapErr' = "failed to encode snapshot"
    /\ UNCHANGED <<appVars, workers, cosmic, conn, panicked, phase,
                   snapSrc, snapFile2, snapPrev, vmIn, vmOut, vis, hub,
                   singleStep>>

\* state.go:393-426 loadSnapshot(filename) where the file named holds file
LoadSnapshot(file) ==
    /\ phase = "snap"
    /\ savePc = "idle"
    /\ IF file = NoFile
       THEN /\ snapErr' = "failed to open snapshot file"
            /\ UNCHANGED appVars
       ELSE IF ~IsSnapshot(file)
       THEN /\ snapErr' = "failed to decode snapshot"
            /\ UNCHANGED appVars
       ELSE /\ snapErr' = "nil"
            /\ InstallAppNext(loadSnapshot(App, file))
    /\ UNCHANGED <<workers, cosmic, conn, panicked, phase, snapFile,
                   snapSrc, snapFile2, savePc, snapPrev, vmIn, vmOut, vis, hub,
                   singleStep>>

\* the files a load can read: the snapshot path or another file
LoadFiles == SnapshotInputs \cup {snapFile}

NextSnap ==
    \/ SaveCreateFails
    \/ SaveCreate
    \/ SaveEncode
    \/ SaveEncodeFails
    \/ \E file \in LoadFiles : LoadSnapshot(file)

SpecSnap == InitSnap /\ [][NextSnap]_vars

(***************************************************************************)
(* Properties of the supervisor (Spec).                                    *)
(***************************************************************************)
\* the supervisor is paused and no control command is in progress: every
\* Pause so far has returned
PausedAtRest ==
    /\ Running
    /\ paused = 1
    /\ \A c \in DOMAIN conn : conn[c].pc = "idle"

NoWorkerAlive == \A id \in DOMAIN workers : workers[id].sel + workers[id].stp = 0

\* C1: once Pause has returned and until Resume is called, no worker executes
\* an instruction step: no worker takes the default case of its select and no
\* worker runs p.Step().
C1_PauseQuiescence ==
    [][PausedAtRest =>
          ~(\E id \in DOMAIN workers : WorkerDefault(id) \/ WorkerStep(id))]_vars

\* Pause has returned after the workers stepped, and none of them is left
C1_Witness ==
    /\ PausedAtRest
    /\ \A c \in DOMAIN conn : conn[c].log = "Pausing simulation"
    /\ \E id \in DOMAIN population : population[id].Steps > 0
    /\ NoWorkerAlive

\* C2: once Pause has returned and until Resume or Step is called, no soup
\* cell of the running process changes, the cosmic-ray mutator included.
C2_SoupFrozenAfterPause == [][PausedAtRest /\ Running' => soup' = soup]_vars

\* C3: at every command boundary of a sequence of Pause and Resume commands
\* each IP has exactly one worker when the simulation runs and none when it
\* is paused; a Pause while paused and a Resume while running change nothing.
WorkerAccounting ==
    (Running /\ \A c \in DOMAIN conn : conn[c].pc = "idle") =>
        \A id \in DOMAIN population :
            /\ id \in DOMAIN workers
            /\ workers[id].sel + workers[id].stp = IF paused = 0 THEN 1 ELSE 0

RedundantCommandIsNoOp ==
    \A c \in DOMAIN conn :
        (/\ Running
         /\ \/ conn[c].pc = "PauseCAS" /\ paused = 1
            \/ conn[c].pc = "ResumeCAS" /\ paused = 0
         /\ Running'
         /\ conn'[c] # conn[c])
        => /\ conn'[c].pc = "idle"
           /\ UNCHANGED <<appVars, workers>>

C3_WorkerAccounting == []WorkerAccounting /\ [][RedundantCommandIsNoOp]_vars

\* running again after a Pause and a Resume, one worker per IP on the new
\* stop channel
C3_Witness ==
    /\ Running
    /\ paused = 0
    /\ ipStopChan.id > 0
    /\ \A c \in DOMAIN conn : conn[c].pc = "idle" /\ conn[c].log = "Resuming simulation"
    /\ \A id \in DOMAIN population : workers[id].sel + workers[id].stp = 1

\* C4: a step command received while paused runs exactly one Step on every
\* live IP (each step counter grows by exactly 1 over the command), requests
\* one visualization frame, leaves the paused flag set and launches no worker.
StepOnceReturns(c) ==
    /\ Running /\ Running'
    /\ conn[c].pc = "StepRange"
    /\ conn'[c].pc = "idle"

C4_StepOnce ==
    [][\A c \in DOMAIN conn :
          StepOnceReturns(c) =>
              /\ DOMAIN conn[c].base = DOMAIN population'
              /\ \A id \in DOMAIN population' :
                    population'[id].Steps = conn[c].base[id] + 1
              /\ visRequestChan' = 1
              /\ paused = 1 /\ paused' = 1
              /\ workers' = workers /\ NoWorkerAlive /\ ipWg' = 0]_vars

\* the step command has returned: still paused, a frame is requested, every
\* IP has been stepped and no worker exists
C4_Witness ==
    /\ PausedAtRest
    /\ \A c \in DOMAIN conn : conn[c].log = "Stepped all IPs."
    /\ \A id \in DOMAIN population : population[id].Steps > 0
    /\ visRequestChan = 1
    /\ NoWorkerAlive

\* C5: a step command received while the supervisor is not paused is
\* rejected without effect: no IP is stepped by it, no frame is requested,
\* and the paused flag, the stop channel and the workers are unchanged.
C5_StepWhileRunningRejected ==
    [][\A c \in DOMAIN conn :
          (/\ Running /\ Running'
           /\ conn[c].pc = "StepCheck"
           /\ paused = 0
           /\ conn'[c] # conn[c])
          => /\ conn'[c].pc = "idle"
             /\ conn'[c].todo = {}
             /\ UNCHANGED <<soup, population, visRequestChan, paused,
                            ipStopChan, ipWg, workers>>]_vars

\* the step command was refused while the workers were running
C5_Witness ==
    /\ Running
    /\ paused = 0
    /\ \E c \in DOMAIN conn :
          /\ conn[c].pc = "idle"
          /\ conn[c].log = "Step command received, but simulation is not paused."
    /\ \A id \in DOMAIN population : workers[id].sel + workers[id].stp = 1

\* C6: once the stop channel is closed no worker begins a new Step (it ends
\* at most the Step in progress), a worker exits for no other reason than
\* the closed stop channel, and under fair scheduling of the workers and of
\* the caller every Pause that waits for the workers returns (unless the
\* process ends first).
NoStepBeginsAfterStop ==
    \A id \in DOMAIN workers :
        (Running' /\ workers'[id].stp > workers[id].stp) => ~ipStopChan.closed

WorkerExitsOnlyOnStop ==
    \A id \in DOMAIN workers :
        (Running' /\ workers'[id].sel + workers'[id].stp
                        < workers[id].sel + workers[id].stp)
        => ipStopChan.closed /\ workers[id].sel > workers'[id].sel

PauseReturns ==
    \A c \in Conns :
        (Running /\ conn[c].pc = "PauseWait") ~> (~Running \/ conn[c].pc = "idle")

C6_StopSignalResponse ==
    /\ [][NoStepBeginsAfterStop]_vars
    /\ [][WorkerExitsOnlyOnStop]_vars
    /\ PauseReturns

\* the Wait of Pause has just returned: the channel is closed, every worker
\* has left after stepping
C6_Witness ==
    /\ Running
    /\ ipStopChan.closed
    /\ ipWg = 0
    /\ \E c \in DOMAIN conn : conn[c].pc = "PauseVis"
    /\ \A id \in DOMAIN population : population[id].Steps > 0
    /\ NoWorkerAlive

\* The Go scheduler runs every runnable goroutine: a worker that can leave
\* its loop does, a Step in progress ends, and the goroutine inside Pause goes
\* on.
Fairness ==
    /\ \A id \in IPIds : WF_vars(WorkerExit(id)) /\ WF_vars(WorkerStep(id))
    /\ \A c \in Conns : WF_vars(PauseWait(c)) /\ WF_vars(PauseVis(c))

SpecFair == Init /\ [][Next]_vars /\ Fairness

\* C8: every Step call adds exactly 1 to the step counter of its IP, whatever
\* the rule byte does (ALU, jump taken, jump not taken), and nothing else in
\* the running supervisor (pause, resume, reposition, the addressing flags,
\* the view index) changes a step counter.
SteppedBy(c) == conn[c].todo \ conn'[c].todo

C8_MonotonicSteps ==
    [][(Running /\ Running') =>
          /\ \A id \in DOMAIN workers :
                WorkerStep(id) =>
                    population'[id].Steps = population[id].Steps + 1
          /\ \A c \in DOMAIN conn :
                StepRange(c) =>
                    \E id \in SteppedBy(c) :
                        population'[id].Steps = population[id].Steps + 1
          /\ \A id \in DOMAIN population :
                population'[id].Steps # population[id].Steps =>
                    /\ population'[id].Steps = population[id].Steps + 1
                    /\ \/ WorkerStep(id)
                       \/ \E c \in DOMAIN conn :
                             StepRange(c) /\ id \in SteppedBy(c)]_vars

\* the second IP has made its one Step, a taken jump (only the jump leads
\* from its start cell to the top of the middle column), and the first IP
\* has been repositioned out of range since
C8_Witness ==
    /\ Running
    /\ population[2].Steps = 1
    /\ population[2].X = 1 /\ population[2].Y = 0
    /\ population[1].X < 0
    /\ \E c \in DOMAIN conn : conn[c].log = "set_ip_ptr"

\* C10: a snapshot saved and loaded into a fresh supervisor gives back the
\* saved state on soup, IPs (id, x, y, step counter), next_ip_id, generation
\* and seed, and saving again gives an identical snapshot.
C10_SnapshotRoundTrip ==
    /\ phase = "loaded" => Saved(App) = snapSrc
    /\ phase = "resaved" => snapFile2 = snapFile

(***************************************************************************)
(* Properties of IP.Step alone (SpecVM).                                   *)
(***************************************************************************)
StepReturned == phase = "vm" /\ vmOut # NoFile

\* C7: whatever the soup, the addressing flags and the starting cursor (one
\* left out of range by SetIPPtr included), when Step returns the cursor is
\* inside the grid: 0 <= X < DIM_X and 0 <= Y < DIM_Y.
C7_IndexSafety ==
    StepReturned =>
        /\ population[1].X \in 0..(DIM_X - 1)
        /\ population[1].Y \in 0..(DIM_Y - 1)

\* Step has returned on a cursor that was outside the grid on both axes
C7_Witness ==
    /\ StepReturned
    /\ vmIn.ip.X < 0
    /\ vmIn.ip.Y < 0
    /\ population[1].X \in 0..(DIM_X - 1)
    /\ population[1].Y \in 0..(DIM_Y - 1)

\* C9: whatever the soup, the cursor and the addressing flags, Step ends
\* normally: every soup index it reads or writes is in [0, N) and it does
\* not panic (no index out of range, no division by zero).
C9_VMTotality ==
    /\ ~panicked
    /\ StepReturned =>
          /\ vmOut.acc \subseteq 0..(N - 1)
          /\ vmOut.wrote \subseteq vmOut.acc

\* Step has returned from an out-of-range cursor with 32-bit operands,
\* having touched every cell of the soup and written one
C9_Witness ==
    /\ StepReturned
    /\ ~panicked
    /\ vmIn.ip.Y = DIM_Y
    /\ vmIn.ip.Use32BitAddressing
    /\ vmOut.acc = 0..(N - 1)
    /\ vmOut.wrote # {}


(***************************************************************************)
(* Properties of the snapshot calls (SpecSnap).                            *)
(***************************************************************************)
\* a loadSnapshot call has returned nil
LoadReturnedNil(file) ==
    /\ LoadSnapshot(file)
    /\ snapErr' = "nil"

\* C11: in every state after initialization the supervisor's soup has
\* N = DIM_X * DIM_Y cells, whatever snapshot loads have run.
C11_SoupLengthStable ==
    phase = "snap" => DOMAIN soup = 0..(N - 1)

\* C12: a load of a snapshot whose soup has a length other than N returns an
\* error and leaves the supervisor's soup and population as they were.
C12_MismatchRejected ==
    [][\A file \in LoadFiles :
          (/\ LoadSnapshot(file)
           /\ IsSnapshot(file)
           /\ Cardinality(DOMAIN file.Soup) # N)
          => (/\ snapErr' # "nil"
              /\ soup' = soup
              /\ population' = population)]_vars

\* the ids and cursors the file's entries hold
SavedEntries(file) ==
    {<<file.IPs[k].ID, file.IPs[k].X, file.IPs[k].Y>> : k \in DOMAIN file.IPs}

C14_AtomicSnapshotWrite ==
    phase = "snap" =>
        /\ snapFile \notin {EmptyFile, PartialFile}
        /\ (savePc = "idle" /\ snapErr \in {"failed to create snapshot file",
                                              "failed to encode snapshot"})
               => snapFile = snapPrev


(***************************************************************************)
(* Properties of wrap and to1D (SpecWrap).                                 *)
(***************************************************************************)
WrapReturned == phase = "wrap" /\ vmOut # NoFile

\* C15: wrap(v, M) is the non-negative remainder ((v mod M) + M) mod M and
\* lies in [0, M), computed on unbounded and on fixed-width integers alike;
\* wrap(-1, M) = M - 1; to1D(x, y) = wrap(y, DIM_Y) * DIM_X + wrap(x, DIM_X)
\* lies in [0, N).
C15_ModuloLaw ==
    WrapReturned =>
        /\ vmOut.w = ((vmIn.v % vmIn.M) + vmIn.M) % vmIn.M
        /\ vmOut.w \in 0..(vmIn.M - 1)
        /\ vmOut.wW = vmOut.w
        /\ (vmIn.v = -1 => vmOut.w = vmIn.M - 1)
        /\ vmOut.i = (vmIn.y % DIM_Y) * DIM_X + (vmIn.v % DIM_X)
        /\ vmOut.i \in 0..(N - 1)

\* wrap(-1, M) has returned M - 1 for the largest modulus, and to1D was
\* called with a negative column and a negative row
C15_Witness ==
    /\ WrapReturned
    /\ vmIn.v = -1
    /\ vmIn.y = -1
    /\ vmIn.M = 2 ^ (WrapBits - 2)
    /\ vmOut.w = vmIn.M - 1
    /\ vmOut.i = N - 1


(***************************************************************************)
(* Properties of the jump branch and of the random movement (SpecVM).      *)
(***************************************************************************)
\* the cursor RandomMove and the final wraps make of base
WalkFrom(base, direction) ==
    <<RandomMove(base[1], base[2], direction)[1] % DIM_X,
      RandomMove(base[1], base[2], direction)[2] % DIM_Y>>

\* C16: when a jump is taken with resolved target (fx, fy), the cursor the
\* random movement starts from is (fx mod DIM_X, fy mod DIM_Y).
C16_JumpTargetReached ==
    (StepReturned /\ vmOut.jumpTaken) =>
        /\ vmOut.base = <<vmOut.jump.target[1] % DIM_X,
                          vmOut.jump.target[2] % DIM_Y>>
        /\ <<population[1].X, population[1].Y>> =
               WalkFrom(vmOut.base, vmOut.direction)

\* a jump was taken to a target outside the soup in both coordinates, and
\* the cursor it set is not the one the Step started on
C16_Witness ==
    /\ StepReturned
    /\ vmOut.jumpTaken
    /\ vmOut.jump.target[1] >= DIM_X
    /\ vmOut.jump.target[2] >= DIM_Y
    /\ vmOut.base # <<vmIn.ip.X, vmIn.ip.Y>>
    /\ vmOut.base[2] > 0

\* the instruction byte under the cursor the Step started on
RuleByte == U8(SoupAt(vmIn.soup, to1D(vmIn.ip, vmIn.ip.X, vmIn.ip.Y)))

\* C17: a Step whose instruction byte decodes to a jump (bits 7-6 are
\* ALU_JMP) leaves every soup cell as it was, taken or not; of the IP only the
\* cursor and the step counter change.
C17_JumpsDoNotWrite ==
    (StepReturned /\ (RuleByte \div 64) % 4 = ALU_JMP) =>
        /\ soup = vmIn.soup
        /\ vmOut.wrote = {}
        /\ population[1] = [vmIn.ip EXCEPT !.X = population[1].X,
                                           !.Y = population[1].Y,
                                           !.Steps = vmIn.ip.Steps + 1]

\* a jump byte was executed and the jump taken, away from the start cursor
C17_Witness ==
    /\ StepReturned
    /\ (RuleByte \div 64) % 4 = ALU_JMP
    /\ vmOut.jumpTaken
    /\ vmOut.base # <<vmIn.ip.X % DIM_X, vmIn.ip.Y % DIM_Y>>
    /\ population[1].Steps = 1
    /\ soup = vmIn.soup

\* C18: a jump byte with condition JUMP_Z jumps iff the tested value is 0
\* and one with JUMP_NZ iff it is not; the offset of the jump comes from
\* another operand site than the tested value (stated where the two fetches
\* together are shorter than the soup, so that the fetch pointer cannot lap
\* it); when the condition fails the final cursor is one random move away
\* from the cursor the Step started on.
C18_ConditionalJump ==
    (/\ StepReturned
     /\ vmOut.aluOp = ALU_JMP
     /\ vmOut.destType \in {JUMP_Z, JUMP_NZ}) =>
        /\ (vmOut.destType = JUMP_Z) =>
               (vmOut.jumpTaken <=> vmOut.jump.condVal = 0)
        /\ (vmOut.destType = JUMP_NZ) =>
               (vmOut.jumpTaken <=> vmOut.jump.condVal # 0)
        /\ (Cardinality(vmOut.jump.offsetSite)
                + Cardinality(vmOut.jump.condSite) < N)
               => vmOut.jump.offsetSite \cap vmOut.jump.condSite = {}
        /\ ~vmOut.jumpTaken =>
               <<population[1].X, population[1].Y>> =
                   WalkFrom(<<vmIn.ip.X, vmIn.ip.Y>>, vmOut.direction)

\* the eight offsets of the Moore neighbourhood
MooreOffsets == ({-1, 0, 1} \X {-1, 0, 1}) \ {<<0, 0>>}

\* the cell at offset o from base, on the torus
Displaced(base, o) == <<(base[1] + o[1]) % DIM_X, (base[2] + o[2]) % DIM_Y>>

\* C19: after a Step the final cursor lies at a non-zero Moore offset from
\* its base on the torus, and each of the eight Moore offsets, the diagonals
\* too, is the outcome of the Step for some draw of the random number.
C19_RandomWalkMoore ==
    StepReturned =>
        /\ \E o \in MooreOffsets :
               <<population[1].X, population[1].Y>> = Displaced(vmOut.base, o)
        /\ \A o \in MooreOffsets :
               \E direction \in Directions :
                  \E r \in {IPStep(vmIn.ip, vmIn.soup, direction)} :
                     <<r.ip.X, r.ip.Y>> = Displaced(r.base, o)

\* C20: a Step that runs the ALU branch writes its result to the cell dest
\* selects: 0 the cell east (x+1, y), 1 the cell west (x-1, y), 2 the cell of
\* the instruction (x, y), 3 the cell whose address is resolved, relative to
\* (x, y), from the offset stored north-east at (x+1, y-1).
C20_DestinationSelection ==
    (StepReturned /\ vmOut.aluOp # ALU_JMP) =>
        LET ip == vmIn.ip
            ne == SoupAt(vmIn.soup, to1D(ip, ip.X + 1, ip.Y - 1))
        IN  vmOut.wrote =
               CASE vmOut.destType = 0 -> {to1D(ip, ip.X + 1, ip.Y)}
                 [] vmOut.destType = 1 -> {to1D(ip, ip.X - 1, ip.Y)}
                 [] vmOut.destType = 2 -> {to1D(ip, ip.X, ip.Y)}
                 [] OTHER -> {resolveAddress(ip, ip.X, ip.Y, ne)}


\* C38: a Step on a byte that is not a jump changes no soup cell but the
\* destination its destination bits select: the cell of the instruction, its
\* left or its right neighbour, or the cell at the first source address; with
\* destination 3 and a source type other than TYPE_ADDR_FROM_IMMEDIATE there
\* is no source address and no cell changes.
C38_SingleCellWrite ==
    (StepReturned /\ (RuleByte \div 64) % 4 # ALU_JMP) =>
        LET ip == vmIn.ip
            srcBits == (RuleByte \div 16) % 4
            destBits == RuleByte % 4
            selected ==
                CASE destBits = 0 -> {to1D(ip, ip.X, ip.Y)}
                  [] destBits = 1 -> {to1D(ip, ip.X - 1, ip.Y)}
                  [] destBits = 2 -> {to1D(ip, ip.X + 1, ip.Y)}
                  [] OTHER -> IF srcBits = TYPE_ADDR_FROM_IMMEDIATE
                              THEN vmOut.wrote ELSE {}
        IN  /\ DOMAIN soup = DOMAIN vmIn.soup
            /\ Cardinality(selected) <= 1
            /\ selected \subseteq DOMAIN soup
            /\ vmOut.wrote = selected
            /\ \A i \in DOMAIN soup \ selected : soup[i] = vmIn.soup[i]

\* a byte with destination 3 and an address source has changed the cell at
\* its first source address, which is not the cell of the instruction
C38_Witness ==
    /\ StepReturned
    /\ (RuleByte \div 64) % 4 # ALU_JMP
    /\ RuleByte % 4 = 3
    /\ (RuleByte \div 16) % 4 = TYPE_ADDR_FROM_IMMEDIATE
    /\ \E i \in DOMAIN soup :
           /\ vmOut.wrote = {i}
           /\ i # to1D(vmIn.ip, vmIn.ip.X, vmIn.ip.Y)
           /\ soup[i] # vmIn.soup[i]

\* a byte with destination 3 and no address source has run
C38_NoAddress ==
    /\ StepReturned
    /\ (RuleByte \div 64) % 4 # ALU_JMP
    /\ RuleByte % 4 = 3
    /\ (RuleByte \div 16) % 4 # TYPE_ADDR_FROM_IMMEDIATE
    /\ soup = vmIn.soup


(***************************************************************************)
(* Properties of resolveAddress (SpecResolve).                             *)
(***************************************************************************)
ResolveReturned == phase = "resolve" /\ vmOut # NoFile

\* C21: with relative addressing on and 32-bit addressing off, base (bx, by)
\* and signed 8-bit offset o resolve to the cell (wrap(bx + o, DIM_X), by):
\* the whole byte is a horizontal displacement and the row stays.
C21_Relative8Bit ==
    (/\ ResolveReturned
     /\ vmIn.ip.UseRelativeAddressing
     /\ ~vmIn.ip.Use32BitAddressing) =>
        vmOut.index = (vmIn.by % DIM_Y) * DIM_X + ((vmIn.bx + vmIn.o) % DIM_X)

\* C22: with relative addressing off and 32-bit addressing off, a signed
\* 8-bit offset o, negative or not, resolves to the cell
\* (wrap(o & 0xFF, DIM_X), 0): the row is 0 whatever the base.
C22_Absolute8Bit ==
    (/\ ResolveReturned
     /\ ~vmIn.ip.UseRelativeAddressing
     /\ ~vmIn.ip.Use32BitAddressing) =>
        vmOut.index = U8(vmIn.o) % DIM_X


(***************************************************************************)
(* Properties of the set commands (Spec).                                  *)
(***************************************************************************)
\* C23: set_ip_ptr(id, p) with 0 <= p < N on a live IP sets its cursor to
\* (p mod DIM_X, p div DIM_X), whose to1D is p, and changes no other IP, no
\* step counter, no soup cell and not the paused flag; with an id that names
\* no live IP nothing of the supervisor changes.
C23_Reposition ==
    [][\A c \in Conns, id \in IdInputs, ptr \in PtrInputs :
          SetIPPtrTo(c, id, ptr) =>
             /\ (id \in DOMAIN population /\ ptr \in 0..(N - 1)) =>
                    /\ population'[id].X = ptr % DIM_X
                    /\ population'[id].Y = ptr \div DIM_X
                    /\ to1D(population'[id], population'[id].X,
                            population'[id].Y) = ptr
                    /\ population' =
                           [population EXCEPT ![id].X = population'[id].X,
                                              ![id].Y = population'[id].Y]
                    /\ UNCHANGED <<soup, paused, workers, cosmic, ipCount,
                                   Use32BitAddressing, UseRelativeAddressing>>
             /\ (id \notin DOMAIN population) =>
                    UNCHANGED <<appVars, workers, cosmic>>]_vars

\* set_ip_ptr has moved IP 1, which never stepped, from its start cell (0, 0)
\* to the cell of pointer N - 2
C23_Witness ==
    /\ Running
    /\ conn[1].log = "set_ip_ptr"
    /\ population[1].Steps = 0
    /\ population[1].X = (N - 2) % DIM_X
    /\ population[1].Y = (N - 2) \div DIM_X
    /\ <<population[1].X, population[1].Y>> # <<0, 0>>

\* the cursor, step counter and identity of every IP
CursorsAndSteps ==
    [id \in DOMAIN population |->
        <<population[id].ID, population[id].X, population[id].Y,
          population[id].Steps, population[id].SoupDimX,
          population[id].SoupDimY>>]

\* C24: after set_32_bit_addressing(b) every live IP has Use32BitAddressing
\* = b and so has the supervisor, whose flag goes to IPs created later; the
\* relative flag of the supervisor and of every IP, the cursors, the step
\* counters and the soup stay.  The same for set_relative_addressing with
\* the two flags exchanged.
C24_ReconfigureAddressing ==
    [][\A c \in Conns, b \in BOOLEAN :
          /\ Set32BitAddressingTo(c, b) =>
                /\ Use32BitAddressing' = b
                /\ \A id \in DOMAIN population' :
                       /\ population'[id].Use32BitAddressing = b
                       /\ population'[id].UseRelativeAddressing =
                              population[id].UseRelativeAddressing
                /\ UNCHANGED <<UseRelativeAddressing, CursorsAndSteps, soup,
                               paused, workers>>
          /\ SetRelativeAddressingTo(c, b) =>
                /\ UseRelativeAddressing' = b
                /\ \A id \in DOMAIN population' :
                       /\ population'[id].UseRelativeAddressing = b
                       /\ population'[id].Use32BitAddressing =
                              population[id].Use32BitAddressing
                /\ UNCHANGED <<Use32BitAddressing, CursorsAndSteps, soup,
                               paused, workers>>]_vars

\* set_32_bit_addressing(true) has run on a supervisor with all its IPs: the
\* supervisor and every IP have the flag, the relative flag is as NewAppState
\* set it
C24_Witness ==
    /\ Running
    /\ conn[1].log = "set_32_bit_addressing"
    /\ Use32BitAddressing
    /\ UseRelativeAddressing
    /\ DOMAIN population = IPIds
    /\ \A id \in DOMAIN population :
           /\ population[id].Use32BitAddressing
           /\ population[id].UseRelativeAddressing

\* C25: a set_32_bit_addressing or set_relative_addressing command writes
\* the flags of the IPs only while the supervisor is paused and no worker of
\* an IP is alive.
C25_FlagsWrittenOnlyWhenStopped ==
    [][\A c \in Conns, b \in BOOLEAN :
          (Set32BitAddressingTo(c, b) \/ SetRelativeAddressingTo(c, b)) =>
             (paused = 1 /\ NoWorkerAlive)]_vars


(***************************************************************************)
(* Properties of the cosmic-ray mutator (SpecCosmic) and of the messages   *)
(* about it (Spec).                                                        *)
(***************************************************************************)
\* the cells in which soups s and u differ
ChangedCells(s, u) == {i \in DOMAIN s : s[i] # u[i]}

\* C26: a mutation of the cosmic-ray mutator changes one bit, of index 0..7,
\* of one soup cell of index 0..N-1 and leaves the other cells and every IP
\* as they were; with the rate 0 the mutator never changes the soup.
C26_CosmicRayEffect ==
    [][/\ CosmicFlip =>
             /\ DOMAIN soup' = DOMAIN soup
             /\ ChangedCells(soup, soup') \subseteq 0..(N - 1)
             /\ Cardinality(ChangedCells(soup, soup')) = 1
             /\ \A i \in ChangedCells(soup, soup') :
                    BitXor(U8(soup[i]), U8(soup'[i])) \in {2 ^ k : k \in 0..7}
             /\ population' = population
       /\ (cosmicRayRate = 0 /\ NextCosmic) => soup' = soup]_vars

\* the mutator has flipped bit 7 of the last cell, which was -64
C26_Witness ==
    /\ Running
    /\ workers = <<>>
    /\ cosmic.flips = 1
    /\ soup[N - 1] = 64
    /\ soup[1] = 0

\* C27: a set_cosmic_ray_rate message with value v makes the rate cell the
\* mutator reads hold v, and the rate cell holds a probability in [0, 1]
\* (0..1000 thousandths) in every state.
C27_RateControl ==
    /\ [](cosmicRayRate \in 0..1000)
    /\ [][\A c \in Conns, v \in RateInputs :
             RecvSetCosmicRayRate(c, v) => cosmicRayRate' = v]_vars

\* C28: a message of unknown type, or a command message with an unknown
\* command, leaves the supervisor as it was (paused flag, workers, soup, IPs,
\* view index, rate, channels) and the connection at the head of its loop,
\* ready for the next message.
C28_UnknownIgnored ==
    [][\A c \in Conns :
          RecvUnknown(c) =>
             /\ UNCHANGED <<appVars, workers, cosmic, panicked>>
             /\ conn'[c].pc = "idle"
             /\ conn'[c].todo = conn[c].todo
             /\ (conn'[c].n < MaxCmds) => CanRecv(c)']_vars

\* a paused supervisor has been sent an unknown message: it is still paused
\* at rest and the connection can take the next message
C28_Witness ==
    /\ Running
    /\ conn[1].log = "Unknown"
    /\ conn[1].sets = 0
    /\ conn[1].n = 2
    /\ PausedAtRest
    /\ NoWorkerAlive
    /\ CanRecv(1)


(***************************************************************************)
(* Properties of the hub (SpecHub).                                        *)
(***************************************************************************)
\* C29: when the send buffer of a client is full the hub discards so that
\* the most recent message is the next the client can get: no message is
\* discarded for a client while an older message is waiting in its buffer.
C29_MostRecentWins ==
    phase = "hub" =>
        \A c \in HubClients :
            \A d \in hub.dropped[c] :
                \A i \in DOMAIN hub.send[c] : hub.send[c][i] > d


(***************************************************************************)
(* Properties of the frame emitter (SpecVis).                              *)
(***************************************************************************)
\* C30: a Pause that moved the supervisor from running to paused leaves a
\* frame request behind, after the join of the workers, and every frame
\* request is followed by a frame; and once Pause has returned no frame
\* comes from the ticker.
C30_FrameOnPause ==
    /\ [][\A c \in Conns : PauseVis(c) => visRequestChan' > 0]_vars
    /\ (Running /\ visRequestChan > 0) ~> (visRequestChan = 0 \/ ~Running)
    /\ [][TickFrame => ~PausedAtRest]_vars


(***************************************************************************)
(* Properties of sendFrame (SpecFrame).                                    *)
(***************************************************************************)
\* the cell of the soup that the byte at row r and column c of a frame shows
\* when the view starts at index start
WindowIndex(start, r, c) ==
    (((start \div DIM_X) + r) % DIM_Y) * DIM_X + (((start % DIM_X) + c) % DIM_X)

FramesInFlight ==
    {hub.broadcast[i] : i \in DOMAIN hub.broadcast} \cup
    UNION {{hub.send[c][i] : i \in DOMAIN hub.send[c]} : c \in HubClients}

\* C31: every frame has StatsAndVisSize bytes; the byte at row r and column c
\* of the window is copied from the soup cell ((startY + r) mod DIM_Y) * DIM_X
\* + ((startX + c) mod DIM_X), where startX and startY are the view start
\* index mod and div DIM_X; and a frame is sent when every byte of the window
\* has been copied.
C31_FrameWindow ==
    /\ [](\A m \in FramesInFlight :
              m.type = "frame" => DOMAIN m.sampled = 0..(StatsAndVisSize - 1))
    /\ [][FrameCopy =>
              /\ vis.start >= 0
              /\ vis.destIndex = vis.y * viewDim + vis.x
              /\ vis'.currentIndices =
                     [vis.currentIndices EXCEPT
                         ![vis.y * viewDim + vis.x] =
                             U8(soup[WindowIndex(vis.start, vis.y, vis.x)])]]_vars
    /\ [][FrameSend =>
              /\ vis.destIndex = viewDim * viewDim
              /\ hub'.broadcast[Len(hub'.broadcast)].sampled = vis.currentIndices]_vars

\* a frame of a window that wraps in both directions has been sent
C31_Witness ==
    /\ phase = "running"
    /\ vis # IdleVis
    /\ vis.pc = "locations"
    /\ vis.start = N - 1
    /\ \E m \in FramesInFlight : m.type = "frame" /\ m.n = vis.frames

\* the live IPs whose cursor is on a cell of the window that starts at index
\* start
IPsInWindow(start) ==
    {id \in DOMAIN population :
        \E r, c \in 0..(viewDim - 1) :
            /\ population[id].X = ((start % DIM_X) + c) % DIM_X
            /\ population[id].Y = ((start \div DIM_X) + r) % DIM_Y}

\* list has one entry for each IP of ids, its cursor, and no other entry
ListsExactly(list, ids) ==
    /\ Len(list) = Cardinality(ids)
    /\ \A id \in ids :
           Cardinality({i \in DOMAIN list :
                           list[i] = <<population[id].X, population[id].Y>>})
           = Cardinality({other \in ids :
                             population[other].X = population[id].X
                             /\ population[other].Y = population[id].Y})

\* the part of C32 about the content of a message that is sent
LocationsSentAreExact ==
    [][FrameLocations /\ hub' # hub =>
          ListsExactly(hub'.broadcast[Len(hub'.broadcast)].locations,
                       IPsInWindow(vis.start))]_vars

\* C32: every frame is followed by an ip_locations message of the same call
\* of sendFrame that lists exactly the live IPs inside the window, an empty
\* list included.
C32_IPLocations ==
    [][FrameLocations =>
          /\ Len(hub'.broadcast) = Len(hub.broadcast) + 1
          /\ hub'.broadcast[Len(hub'.broadcast)].type = "ip_locations"
          /\ hub'.broadcast[Len(hub'.broadcast)].n = vis.frames
          /\ ListsExactly(hub'.broadcast[Len(hub'.broadcast)].locations,
                          IPsInWindow(vis.start))]_vars


(***************************************************************************)
(* Properties of the supervisor under several connections (SpecMulti).     *)
(***************************************************************************)
\* the worker goroutines of IP id that are alive
WorkersOf(id) == workers[id].sel + workers[id].stp

AllIdle == \A c \in DOMAIN conn : conn[c].pc = "idle"

\* the first part of C33 alone
OneWorkerPerIP == \A id \in DOMAIN workers : WorkersOf(id) <= 1

\* the second part of C33 alone
PausedMeansNoWorker ==
    Running /\ paused = 1 /\ AllIdle => \A id \in DOMAIN workers : WorkersOf(id) = 0

\* C33: whatever the interleaving of the Pause, Resume and Step of several
\* connections, no IP has more than one worker goroutine, and while the
\* paused flag is 1 with every command completed no worker is alive.
C33_OneWorkerPerIP == OneWorkerPerIP /\ PausedMeansNoWorker

\* C34: no Pause closes a stop channel that is closed already (the process
\* would abort), and the channel a Pause closes is the one the workers of
\* that moment select on.
C34_StopClosedOnce ==
    [][\A c \in DOMAIN conn :
          PauseClose(c) =>
              /\ ~ipStopChan.closed
              /\ ~panicked'
              /\ ipStopChan'.id = ipStopChan.id /\ ipStopChan'.closed]_vars

\* C35: the Range of a Step command and a worker goroutine are never both
\* at the Step of the same IP.
C35_StepNotConcurrent ==
    \A c \in DOMAIN conn, id \in DOMAIN workers :
        ~(conn[c].pc = "StepRange" /\ id \in conn[c].todo /\ workers[id].stp > 0)


(***************************************************************************)
(* Channel safety of the hub (SpecHub).                                    *)
(***************************************************************************)
\* C36: whatever the register, unregister and broadcast events, the hub
\* closes no send channel twice and sends on no closed send channel (either
\* would panic): the clients it holds have open channels; and a broadcast
\* leaves the channel of a client that is not in the hub as it was.
C36_HubChannelSafety ==
    /\ [](phase = "hub" =>
              /\ ~panicked
              /\ \A c \in hub.clients : ~hub.closed[c])
    /\ [][HubBroadcast =>
              \A c \in HubClients \ hub.clients : hub'.send[c] = hub.send[c]]_vars

\* a client has been sent to h.Unregister twice, and a broadcast has found a
\* full send channel
C36_Witness ==
    /\ phase = "hub"
    /\ ~panicked
    /\ \E c \in HubClients : hub.unregs[c] = 2 /\ hub.closed[c]
    /\ \E c \in HubClients : hub.dropped[c] # {}


(***************************************************************************)
(* Frames after the hand-off to the hub (SpecFrame).                       *)
(***************************************************************************)
\* C37: a frame that waits in hub.Broadcast or in the send channel of a
\* client has the bytes its sampling produced, and so has every frame that a
\* writePump has written to a connection.
C37_FrameImmutable ==
    (phase = "running" /\ hub # NoHub) =>
        /\ \A m \in FramesInFlight :
               m.type = "frame" => vis.currentIndices = m.sampled
        /\ \A c \in HubClients : \A i \in DOMAIN hub.got[c] :
               hub.got[c][i].type = "frame" =>
                   hub.got[c][i].bytes = hub.got[c][i].sampled

\* the second part of C37 alone: what the clients were sent
DeliveredAsSampled ==
    (phase = "running" /\ hub # NoHub) =>
        \A c \in HubClients : \A i \in DOMAIN hub.got[c] :
            hub.got[c][i].type = "frame" =>
                hub.got[c][i].bytes = hub.got[c][i].sampled


(***************************************************************************)
(* Properties of the flag-polling supervisor (SpecPoll).                   *)
(***************************************************************************)
\* a step command was taken while the simulation was at rest and is the last
\* command of connection c
StepInForce(c) == conn[c].log = "step" /\ conn[c].base # <<>>

\* no worker has stepped its IP more than once since the step command
AtMostOneStep ==
    \A c \in DOMAIN conn :
        StepInForce(c) =>
            \A id \in DOMAIN population :
                population[id].Steps <= conn[c].base[id] + 1

\* when the step command has returned and the flags hold every worker in
\* its wait loop, every worker has stepped its IP once
EveryWorkerStepped ==
    \A c \in DOMAIN conn :
        (StepInForce(c) /\ conn[c].pc = "idle" /\ AllWaiting
         /\ paused = 1 /\ singleStep = 0) =>
            \A id \in DOMAIN population :
                population[id].Steps = conn[c].base[id] + 1

\* C39: after a step command issued while paused, every IP worker executes
\* one Step and no more until the next command, and the flags are back at
\* paused = 1 and singleStep = 0.
C39_PollingStepOnce == AtMostOneStep /\ EveryWorkerStepped

====
